---- MODULE Spec2Model ----
(***************************************************************************)
(* The task runner of CodeTease/p: recursive_runner (src/runner/mod.rs),   *)
(* its call stack, the task adapter that re-enters it from a command line  *)
(* (src/pas/commands/adapter.rs) and the mtime freshness check             *)
(* (src/runner/cache.rs).                                                  *)
(*                                                                         *)
(* A run is a set of threads: the thread of the entry call and one thread  *)
(* per dependency of a parallel batch (rayon's par_iter).  Each thread     *)
(* holds its stack of recursive_runner activations (frames) and the        *)
(* CallStack objects those activations were handed.                        *)
(***************************************************************************)
EXTENDS Integers, Sequences, FiniteSets, TLC

\* ------------------------------------------------------------ bounds
MaxDeps == 2
MaxCmds == 2
\* Frames one thread may hold before the process dies of stack exhaustion.
MaxDepth == 4
\* Seconds a running command is followed for.
MaxElapsed == 2
\* File modification times and clock readings, in seconds since the epoch.
MaxTime == 2

\* ------------------------------------------------------------ constants
DefaultTimeout == 1800
UNIX_EPOCH == 0

\* Option<T> as a sequence of length 0 or 1.
None == <<>>
Some(x) == <<x>>
IsSome(o) == Len(o) = 1
Unwrap(o) == o[1]

Last(s) == s[Len(s)]
Front(s) == SubSeq(s, 1, Len(s) - 1)
Range(s) == {s[k] : k \in 1..Len(s)}
SeqsUpTo(S, n) == UNION {[1..k -> S] : k \in 0..n}

Max(S) == CHOOSE x \in S : \A y \in S : y <= x
Min(S) == CHOOSE x \in S : \A y \in S : x <= y

\* ------------------------------------------------------------ manifest
Tasks == {"a", "b", "c"}
\* What a command line of a task is: the name of a task (registered under its
\* own name, so the line is dispatched to the task adapter), the `exit`
\* builtin, or anything else, which spawns a system program.
Cmd == Tasks \cup {"sys", "exit"}

\* RunnerTask::Full. Single(cmd) and List(cmds) are Full with the defaults.
\* `os_cur` is the per-OS list of the OS the program runs on, `os_other` says
\* that a list for another OS is declared. `retry` is the manifest's key of
\* that name: RunnerTask has no such field, so loading drops it.
DefaultTask ==
    [cmds |-> <<"sys">>, deps |-> <<>>, parallel |-> FALSE, run_if |-> None,
     skip_if |-> None, cache |-> FALSE, os_cur |-> None, os_other |-> FALSE,
     ignore_failure |-> FALSE, timeout |-> None, retry |-> 0]

VARIABLES
    cfg,        \* the assembled configuration's task map (read-only)
    threads,    \* thread id -> [frames, stacks, res, base]
    halted,     \* "no", or how the process ended: "exit", "overflow"
    executed,   \* tasks of which a command has been started
    raised,     \* kinds of error raised so far
    saved,      \* tasks whose freshness cache has been persisted
    c_in,       \* is_up_to_date alone: its arguments and the clock
    c_out,      \* is_up_to_date alone: its result
    ld,         \* load_config: the directory read and the configuration built
    sh,         \* the shell: the line executed and the context it runs in
    fs,         \* a builtin or system command alone: the files and processes
    lg,         \* write_log alone: the environment and the log written
    xc,         \* expand_command alone: its arguments and its result
    rs,         \* run_shell_command alone: the child, the readers, the log
    sq,         \* handle_sequence alone: the sides, the bridge, the sink
    project     \* the [project] table: log_strategy

\* The state of load_config and of the shell while neither is running.
Idle == [pc |-> "off"]

vars == <<cfg, threads, halted, executed, raised, saved, c_in, c_out, ld, sh,
          fs, lg, xc, rs, sq, project>>

\* config.rs lines 39-43 and 50: log_strategy is absent or one of the three.
LogStrategy == {"always", "error-only", "none"}
NoProject == [log_strategy |-> None]

\* The functions checked alone are not running.
UnitsIdle == fs = Idle /\ lg = Idle /\ xc = Idle /\ rs = Idle /\ sq = Idle

\* ------------------------------------------------------------ cache.rs
LatestSrc(S) == Max(S \cup {UNIX_EPOCH})
OldestOut(O, now) == Min(O \cup {now})

\* S and O are the modification times of the files the source and output
\* patterns expand to, now the clock reading taken on entry.
is_up_to_date(S, O, now) ==
    IF S = {} \/ O = {} THEN FALSE
    ELSE LatestSrc(S) < OldestOut(O, now)

\* ------------------------------------------------------------ frames
Main == <<>>

NewFrame(t, via, capture, dry) ==
    [task |-> t, pc |-> "enter", i |-> 0, via |-> via, capture |-> capture,
     dry |-> dry, res |-> "none", el |-> 0, cmds |-> <<>>,
     depok |-> {}, started |-> <<>>, log |-> <<>>, failed |-> {}]

Live == {T \in DOMAIN threads : threads[T].frames # <<>>}
Top(T) == Last(threads[T].frames)
CallStackOf(T) == Last(threads[T].stacks)

SetTop(thr, f) == [thr EXCEPT !.frames = [@ EXCEPT ![Len(@)] = f]]
SetCallStack(thr, cs) == [thr EXCEPT !.stacks = [@ EXCEPT ![Len(@)] = cs]]

\* Activations of recursive_runner nested below and in thread T: a parallel
\* batch runs inside the activation that waits for it.
Depth(T) == threads[T].base + Len(threads[T].frames)

\* A push that never finds the task on the stack.
CallStack_push_Blind(cs, t) == "ok"

\* CallStack::push
CallStack_push(cs, t) == IF t \in cs THEN "cycle" ELSE "ok"
\* A pop that leaves the name on the stack.
CallStack_pop_Keep(cs, t) == cs
\* CallStack::pop
CallStack_pop(cs, t) == cs \ {t}

\* How a frame ends: the value recursive_runner returns.
Ret(f, r) == [f EXCEPT !.pc = "ret", !.res = r]

Running == halted = "no"

\* ------------------------------------------------------------ freshness, OS
Mtimes == 0..MaxTime

\* lines 166-176: the per-OS list of this OS replaces cmds.
EffCmds(t) == IF IsSome(t.os_cur) THEN Unwrap(t.os_cur) ELSE t.cmds
\* line 178
has_os_config(t) == IsSome(t.os_cur) \/ t.os_other

\* lines 163-186 and 342-345: after the freshness check said "run".
Select(f) ==
    LET t == cfg[f.task]
    IN IF EffCmds(t) = <<>> /\ has_os_config(t) THEN Ret(f, "os")
       ELSE IF EffCmds(t) = <<>> THEN Ret(f, "ok")
       ELSE [f EXCEPT !.pc = "cmds", !.i = 1, !.cmds = EffCmds(t)]

\* lines 150-153: the dependencies are through. A task that declares sources
\* and outputs asks is_up_to_date next, any other goes on to its commands.
Advance(f) ==
    IF f.pc = "deps" /\ f.i > Len(cfg[f.task].deps)
    THEN IF cfg[f.task].cache THEN [f EXCEPT !.pc = "fresh"] ELSE Select(f)
    ELSE f

\* The error a frame has just ended with, if any.
NewErr(f) == IF f.pc = "ret" /\ f.res # "ok" THEN {f.res} ELSE {}

\* What the frame's return does to the call stack: popped on the Ok paths
\* (lines 158, 344), left alone by bail! and `?`.
Leave(thr, f) ==
    IF f.pc = "ret" /\ f.res = "ok"
    THEN SetCallStack(SetTop(thr, f), CallStack_pop(Last(thr.stacks), f.task))
    ELSE SetTop(thr, f)

\* lines 153-161: sources and outputs both declared and up to date: return Ok
\* without running anything. fresh is is_up_to_date's answer, "err" its Err.
AfterFresh(f, fresh) ==
    IF fresh = "err" THEN Ret(f, "fresh")
    ELSE IF fresh = "yes" THEN Ret(f, "ok")
    ELSE Select(f)

\* line 97: call_stack.push(task_name)?
Push(T) ==
    /\ Running /\ T \in Live /\ Top(T).pc = "enter"
    /\ LET f == Top(T)
           cs == CallStackOf(T)
       IN IF CallStack_push(cs, f.task) = "cycle"
          THEN /\ threads' = [threads EXCEPT ![T] = SetTop(@, Ret(f, "cycle"))]
               /\ raised' = raised \cup {"cycle"}
          ELSE LET g == Advance([f EXCEPT !.pc = "deps", !.i = 1])
               IN /\ threads' = [threads EXCEPT ![T] =
                        Leave(SetCallStack(@, cs \cup {f.task}), g)]
                  /\ raised' = raised \cup NewErr(g)
    /\ UNCHANGED <<cfg, halted, executed, saved, c_in, c_out, ld, sh, fs, lg, xc, rs, sq, project>>

\* ------------------------------------------------------------ dependencies
Kids(T, f) == {Append(T, k) : k \in 1..Len(cfg[f.task].deps)}

\* lines 111-112, 146: what the task does about its dependencies next.
DepsPhase(f) ==
    LET t == cfg[f.task]
    IN IF t.parallel THEN "spawn" ELSE "call"

\* lines 146-148: the next dependency of a sequential list, on the caller's
\* call stack and with the caller's capture flag.
CallDep(T) ==
    /\ Running /\ T \in Live /\ Top(T).pc = "deps"
    /\ DepsPhase(Top(T)) = "call"
    /\ LET f == Top(T)
           dep == cfg[f.task].deps[f.i]
           g == [f EXCEPT !.started = Append(@, f.i)]
       IN IF Depth(T) >= MaxDepth
          THEN /\ halted' = "overflow"
               /\ UNCHANGED threads
          ELSE /\ threads' = [threads EXCEPT ![T] =
                    [SetTop(@, g) EXCEPT !.frames =
                        Append(@, NewFrame(dep, "dep", f.capture, f.dry))]]
               /\ UNCHANGED halted
    /\ UNCHANGED <<cfg, executed, raised, saved, c_in, c_out, ld, sh, fs, lg, xc, rs, sq, project>>

\* lines 118-134: every dependency of a parallel batch gets a thread of its
\* own, a clone of the caller's call stack, and capture_output = true.
SpawnPar(T) ==
    /\ Running /\ T \in Live /\ Top(T).pc = "deps"
    /\ DepsPhase(Top(T)) = "spawn"
    /\ LET f == Top(T)
           deps == cfg[f.task].deps
           snapshot == CallStackOf(T)
           g == [f EXCEPT !.pc = "join", !.started = [k \in 1..Len(deps) |-> k]]
           kid(k) == [frames |-> <<NewFrame(deps[k], "par", TRUE, f.dry)>>,
                      stacks |-> <<snapshot>>, res |-> "none",
                      base |-> Depth(T)]
       IN threads' = [U \in DOMAIN threads \cup Kids(T, f) |->
                        IF U = T THEN SetTop(threads[T], g)
                        ELSE IF U \in Kids(T, f) THEN kid(Last(U))
                        ELSE threads[U]]
    /\ UNCHANGED <<cfg, halted, executed, raised, saved, c_in, c_out, ld, sh, fs, lg, xc, rs, sq, project>>

\* A batch whose errors are dropped.
ParErrors_Dropped(T, f) == {}

\* lines 135-136: the error messages of the dependencies that failed.
ParErrors(T, f) == {U \in Kids(T, f) : threads[U].res # "ok"}

\* A batch that gives up at the first failure, dropping the siblings.
Join_FailFast(T) ==
    /\ Running /\ T \in Live /\ Top(T).pc = "join"
    /\ \E U \in Kids(T, Top(T)) : threads[U].res \notin {"none", "ok"}
    /\ \A U \in Kids(T, Top(T)) : \A V \in DOMAIN threads : Front(V) # U \/ V = <<>>
    /\ threads' = [U \in DOMAIN threads \ Kids(T, Top(T)) |->
                     IF U = T THEN SetTop(threads[T], Ret(Top(T), "deps"))
                     ELSE threads[U]]
    /\ raised' = raised \cup {"deps"}
    /\ UNCHANGED <<cfg, halted, executed, saved, c_in, c_out, ld, sh, fs, lg, xc, rs, sq, project>>

\* lines 136-141: collect() returns when every dependency has returned; the
\* task fails if any of them failed.
Join(T) ==
    /\ Running /\ T \in Live /\ Top(T).pc = "join"
    /\ \A U \in Kids(T, Top(T)) : threads[U].res # "none"
    /\ LET f == Top(T)
           g == IF ParErrors(T, f) # {} THEN Ret(f, "deps")
                ELSE Advance([f EXCEPT !.pc = "deps", !.i = Len(cfg[f.task].deps) + 1])
       IN /\ threads' = [U \in DOMAIN threads \ Kids(T, f) |->
                           IF U = T THEN Leave(threads[T], g) ELSE threads[U]]
          /\ raised' = raised \cup NewErr(g)
    /\ UNCHANGED <<cfg, halted, executed, saved, c_in, c_out, ld, sh, fs, lg, xc, rs, sq, project>>

\* ------------------------------------------------------------ freshness
CheckFresh(T) ==
    /\ Running /\ T \in Live /\ Top(T).pc = "fresh"
    /\ LET f == Top(T)
       IN \E fresh \in {IF is_up_to_date(S, O, now) THEN "yes" ELSE "no" :
                            S \in SUBSET Mtimes, O \in SUBSET Mtimes, now \in Mtimes}
                        \cup {"err"} :
            LET g == AfterFresh(f, fresh)
            IN /\ threads' = [threads EXCEPT ![T] = Leave(@, g)]
               /\ raised' = raised \cup NewErr(g)
    /\ UNCHANGED <<cfg, halted, executed, saved, c_in, c_out, ld, sh, fs, lg, xc, rs, sq, project>>

\* ------------------------------------------------------------ commands
\* lines 213-217
timeout_duration(t) ==
    IF t.timeout = None THEN Some(DefaultTimeout)
    ELSE IF Unwrap(t.timeout) = 0 THEN None
    ELSE t.timeout

\* lines 183 and 338-345: the loop is over; inside `if !cmds.is_empty()`, the
\* cache of a task with sources and outputs is saved.
LoopEnd(T) ==
    /\ Running /\ T \in Live /\ Top(T).pc = "cmds"
    /\ Top(T).i > Len(Top(T).cmds)
    /\ LET f == Top(T)
       IN /\ threads' = [threads EXCEPT ![T] = Leave(@, Ret(f, "ok"))]
          /\ saved' = IF cfg[f.task].cache /\ f.cmds # <<>>
                      THEN saved \cup {f.task} ELSE saved
    /\ UNCHANGED <<cfg, halted, executed, raised, c_in, c_out, ld, sh, fs, lg, xc, rs, sq, project>>

\* lines 223-226: dry run prints the command and goes on.
DryPrint(T) ==
    /\ Running /\ T \in Live /\ Top(T).pc = "cmds"
    /\ Top(T).i <= Len(Top(T).cmds) /\ Top(T).dry
    /\ threads' = [threads EXCEPT ![T] = SetTop(@, [Top(T) EXCEPT !.i = @ + 1])]
    /\ UNCHANGED <<cfg, halted, executed, raised, saved, c_in, c_out, ld, sh, fs, lg, xc, rs, sq, project>>

CanStart(T, kinds) ==
    /\ Running /\ T \in Live /\ Top(T).pc = "cmds"
    /\ Top(T).i <= Len(Top(T).cmds) /\ ~Top(T).dry
    /\ Top(T).cmds[Top(T).i] \in kinds

\* lines 189-196: log_strategy.unwrap_or(LogStrategy::None) != LogStrategy::None
log_enabled ==
    (IF IsSome(project.log_strategy) THEN Unwrap(project.log_strategy) ELSE "none")
        # "none"

\* lines 198-206
capture_mode(capture_output) ==
    IF capture_output THEN "Buffer"
    ELSE IF log_enabled THEN "Tee" ELSE "Inherit"

Started(f) == [f EXCEPT !.pc = "running", !.el = 0, !.log = Append(@, f.i)]

\* lines 237-261 and system.rs: the line names no registered command, so a
\* system program is spawned and waited for.
StartSys(T) ==
    /\ CanStart(T, {"sys"})
    /\ threads' = [threads EXCEPT ![T] = SetTop(@, Started(Top(T)))]
    /\ executed' = executed \cup {Top(T).task}
    /\ UNCHANGED <<cfg, halted, raised, saved, c_in, c_out, ld, sh, fs, lg, xc, rs, sq, project>>

\* exit.rs: the `exit` builtin ends the process.
StartExit(T) ==
    /\ CanStart(T, {"exit"})
    /\ threads' = [threads EXCEPT ![T] = SetTop(@, Started(Top(T)))]
    /\ executed' = executed \cup {Top(T).task}
    /\ halted' = "exit"
    /\ UNCHANGED <<cfg, raised, saved, c_in, c_out, ld, sh, fs, lg, xc, rs, sq, project>>

\* adapter.rs lines 15-34: the line names a task: recursive_runner is entered
\* again with CallStack::new(), capture_output = false and dry_run = false.
CallTask(T) ==
    /\ CanStart(T, Tasks)
    /\ LET f == Top(T)
       IN IF Depth(T) >= MaxDepth
          THEN /\ halted' = "overflow"
               /\ UNCHANGED threads
          ELSE /\ threads' = [threads EXCEPT ![T] =
                    [SetTop(@, Started(f)) EXCEPT
                        !.frames = Append(@, NewFrame(f.cmds[f.i], "adapter", FALSE, FALSE)),
                        !.stacks = Append(@, {})]]
               /\ UNCHANGED halted
    /\ executed' = executed \cup {Top(T).task}
    /\ UNCHANGED <<cfg, raised, saved, c_in, c_out, ld, sh, fs, lg, xc, rs, sq, project>>

\* A second passes while the command runs.
Tick(T) ==
    /\ Running /\ T \in Live /\ Top(T).pc = "running"
    /\ Top(T).el < MaxElapsed /\ IsSome(cfg[Top(T).task].timeout)
    /\ threads' = [threads EXCEPT ![T] = SetTop(@, [Top(T) EXCEPT !.el = @ + 1])]
    /\ UNCHANGED <<cfg, halted, executed, raised, saved, c_in, c_out, ld, sh, fs, lg, xc, rs, sq, project>>

\* A loop that bails on every failure, ignore_failure or not.
HandleResult_AlwaysBail(f, res) ==
    IF res = "ok" THEN [f EXCEPT !.pc = "cmds", !.i = @ + 1]
    ELSE [Ret(f, res) EXCEPT !.failed = @ \cup {f.i}]

\* A loop that goes on after every failure, ignore_failure or not.
HandleResult_NeverBail(f, res) ==
    IF res = "ok" THEN [f EXCEPT !.pc = "cmds", !.i = @ + 1]
    ELSE [f EXCEPT !.pc = "cmds", !.i = @ + 1, !.failed = @ \cup {f.i}]

\* lines 263-287: res is run_command_line's result: "ok" for Ok(0), "cmd"
\* for Ok(code), "exec" for Err(e).
HandleResult(f, res) ==
    IF res = "ok" THEN [f EXCEPT !.pc = "cmds", !.i = @ + 1]
    ELSE IF cfg[f.task].ignore_failure
         THEN [f EXCEPT !.pc = "cmds", !.i = @ + 1, !.failed = @ \cup {f.i}]
         ELSE [Ret(f, res) EXCEPT !.failed = @ \cup {f.i}]

\* system.rs lines 93-104: child.wait() returns, with the program's exit
\* code or with an I/O error (spawn or wait).
Finish(T) ==
    /\ Running /\ T \in Live /\ Top(T).pc = "running"
    /\ Top(T).cmds[Top(T).i] = "sys"
    /\ \E res \in {"ok", "cmd", "exec"} :
          /\ threads' = [threads EXCEPT ![T] = SetTop(@, HandleResult(Top(T), res))]
          /\ raised' = IF res = "ok" THEN raised ELSE raised \cup {res}
    /\ UNCHANGED <<cfg, halted, executed, saved, c_in, c_out, ld, sh, fs, lg, xc, rs, sq, project>>

\* ------------------------------------------------------------ returns
Caller(T) == threads[T].frames[Len(threads[T].frames) - 1]
Returning(T, via) ==
    /\ Running /\ T \in Live /\ Top(T).pc = "ret" /\ Top(T).via = via

\* A loop over deps that drops the error of a dependency and goes on.
DepReturned_KeepGoing(caller, res) ==
    Advance([caller EXCEPT !.i = @ + 1,
                           !.depok = IF res = "ok" THEN @ \cup {caller.i} ELSE @])

\* line 147: `recursive_runner(..)?` in the loop over deps.
DepReturned(caller, res) ==
    IF res = "ok"
    THEN Advance([caller EXCEPT !.i = @ + 1, !.depok = @ \cup {caller.i}])
    ELSE Ret(caller, res)

ReturnDep(T) ==
    /\ Returning(T, "dep")
    /\ LET g == DepReturned(Caller(T), Top(T).res)
       IN /\ threads' = [threads EXCEPT ![T] = Leave([@ EXCEPT !.frames = Front(@)], g)]
          /\ raised' = raised \cup NewErr(g)
    /\ UNCHANGED <<cfg, halted, executed, saved, c_in, c_out, ld, sh, fs, lg, xc, rs, sq, project>>

\* adapter.rs lines 22-33: `recursive_runner(..)?; Ok(0)`.
AdapterResult(res) == IF res = "ok" THEN "ok" ELSE "exec"

ReturnAdapter(T) ==
    /\ Returning(T, "adapter")
    /\ threads' = [threads EXCEPT ![T] =
          SetTop([@ EXCEPT !.frames = Front(@), !.stacks = Front(@)],
                 HandleResult(Caller(T), AdapterResult(Top(T).res)))]
    /\ raised' = IF Top(T).res = "ok" THEN raised ELSE raised \cup {"exec"}
    /\ UNCHANGED <<cfg, halted, executed, saved, c_in, c_out, ld, sh, fs, lg, xc, rs, sq, project>>

\* lines 132-133: the closure of a parallel dependency returns its result.
ReturnPar(T) ==
    /\ Returning(T, "par")
    /\ LET P == Front(T)
           f == Top(P)
           g == IF Top(T).res = "ok" THEN [f EXCEPT !.depok = @ \cup {Last(T)}] ELSE f
       IN threads' = [threads EXCEPT
            ![T] = [@ EXCEPT !.frames = <<>>, !.stacks = <<>>, !.res = Top(T).res],
            ![P] = SetTop(@, g)]
    /\ UNCHANGED <<cfg, halted, executed, raised, saved, c_in, c_out, ld, sh, fs, lg, xc, rs, sq, project>>

\* handlers/task.rs line 46: the entry call returns to handle_runner_entry.
ReturnEntry(T) ==
    /\ Returning(T, "entry")
    /\ threads' = [threads EXCEPT ![T] =
          [@ EXCEPT !.frames = <<>>, !.stacks = <<>>, !.res = Top(T).res]]
    /\ UNCHANGED <<cfg, halted, executed, raised, saved, c_in, c_out, ld, sh, fs, lg, xc, rs, sq, project>>

\* ------------------------------------------------------------ the inputs
EntryTask == "a"

DepSeqs == SeqsUpTo(Tasks, MaxDeps)
CmdSeqs == SeqsUpTo(Cmd, MaxCmds)

Manifest(ta, tb, tc) ==
    [t \in Tasks |-> IF t = "a" THEN ta ELSE IF t = "b" THEN tb ELSE tc]

\* Dependency graphs over tasks that run one system program each.
GraphTasks(D) ==
    {[DefaultTask EXCEPT !.deps = d, !.parallel = p] :
        d \in D, p \in BOOLEAN} \ {[DefaultTask EXCEPT !.parallel = TRUE]}
GraphConfigs ==
    {Manifest(ta, tb, [DefaultTask EXCEPT !.deps = dc]) :
        ta \in GraphTasks(DepSeqs), tb \in GraphTasks(DepSeqs),
        dc \in {<<>>, <<"a">>}}

\* Command lists: system programs, `exit`, and the names of tasks.
CommandConfigs ==
    {Manifest([DefaultTask EXCEPT !.cmds = ca, !.ignore_failure = ia, !.deps = da[1],
                                  !.parallel = da[2]],
              [DefaultTask EXCEPT !.cmds = cb, !.ignore_failure = ib, !.deps = db],
              DefaultTask) :
        ca \in CmdSeqs, ia \in BOOLEAN,
        da \in {<<<<>>, FALSE>>, <<<<"b">>, FALSE>>, <<<<"b">>, TRUE>>},
        cb \in SeqsUpTo(Cmd, 1), ib \in BOOLEAN, db \in {<<>>, <<"b">>}}

\* The policies of one task: freshness, per-OS lists, timeout.
Timeouts == {None, Some(0), Some(1)}
PolicyConfigs ==
    {Manifest([DefaultTask EXCEPT !.cmds = ca, !.cache = ch, !.os_cur = oc,
                                  !.os_other = oo, !.timeout = tm,
                                  !.ignore_failure = ia],
              DefaultTask, DefaultTask) :
        ca \in SeqsUpTo({"sys"}, MaxCmds), ch \in BOOLEAN,
        oc \in {None, Some(<<>>), Some(<<"sys">>)}, oo \in BOOLEAN,
        tm \in Timeouts, ia \in BOOLEAN}

\* The keys of the manifest the runner never reads: the gates (a gate is the
\* exit code its command line gives) and retry.
Gates == {None, Some(0), Some(1)}
GateConfigs ==
    {Manifest([DefaultTask EXCEPT !.cmds = ca, !.skip_if = sk, !.run_if = ru,
                                  !.retry = re, !.ignore_failure = ia],
              DefaultTask, DefaultTask) :
        ca \in SeqsUpTo({"sys"}, MaxCmds) \ {<<>>}, sk \in Gates, ru \in Gates,
        re \in {0, 2}, ia \in BOOLEAN}

Configs == GraphConfigs \cup CommandConfigs \cup PolicyConfigs \cup GateConfigs

\* The [project] tables tried with a manifest: the logging strategy is varied
\* where command lines name tasks and batches are parallel.
Projects(c) ==
    IF c \in CommandConfigs
    THEN {[log_strategy |-> s] : s \in {None} \cup {Some(x) : x \in LogStrategy}}
    ELSE {NoProject}

\* handlers/task.rs lines 10-47: handle_runner_entry
Init ==
    /\ cfg \in Configs
    /\ \E dry \in BOOLEAN :
          threads = [T \in {Main} |->
                        [frames |-> <<NewFrame(EntryTask, "entry", FALSE, dry)>>,
                         stacks |-> <<{}>>, res |-> "none", base |-> 0]]
    /\ halted = "no"
    /\ executed = {}
    /\ raised = {}
    /\ saved = {}
    /\ c_in = <<>>
    /\ c_out = "none"
    /\ project \in Projects(cfg)
    /\ ld = Idle
    /\ sh = Idle
    /\ UnitsIdle

Next ==
    \/ \E T \in DOMAIN threads : Push(T)
    \/ \E T \in DOMAIN threads : CallDep(T)
    \/ \E T \in DOMAIN threads : SpawnPar(T)
    \/ \E T \in DOMAIN threads : Join(T)
    \/ \E T \in DOMAIN threads : CheckFresh(T)
    \/ \E T \in DOMAIN threads : LoopEnd(T)
    \/ \E T \in DOMAIN threads : DryPrint(T)
    \/ \E T \in DOMAIN threads : StartSys(T)
    \/ \E T \in DOMAIN threads : StartExit(T)
    \/ \E T \in DOMAIN threads : CallTask(T)
    \/ \E T \in DOMAIN threads : Tick(T)
    \/ \E T \in DOMAIN threads : Finish(T)
    \/ \E T \in DOMAIN threads : ReturnDep(T)
    \/ \E T \in DOMAIN threads : ReturnAdapter(T)
    \/ \E T \in DOMAIN threads : ReturnPar(T)
    \/ \E T \in DOMAIN threads : ReturnEntry(T)

Spec == Init /\ [][Next]_vars

\* ------------------------------------------------------------ is_up_to_date alone
\* A task that declares sources and outputs, with its dependencies through:
\* what lines 153-161 make of is_up_to_date's answer for every set of source
\* and output modification times and every clock reading.
CachedTask == [DefaultTask EXCEPT !.cache = TRUE]

InitCache ==
    /\ cfg = Manifest(CachedTask, DefaultTask, DefaultTask)
    /\ threads = [T \in {} |-> <<>>]
    /\ halted = "no"
    /\ executed = {}
    /\ raised = {}
    /\ saved = {}
    /\ c_in \in {<<S, O, now>> : S \in SUBSET Mtimes, O \in SUBSET Mtimes, now \in Mtimes}
    /\ c_out = "none"
    /\ project = NoProject
    /\ ld = Idle
    /\ sh = Idle
    /\ UnitsIdle

FreshAnswer(S, O, now) == IF is_up_to_date(S, O, now) THEN "yes" ELSE "no"

Decide ==
    /\ c_out = "none"
    /\ LET f == [NewFrame(EntryTask, "entry", FALSE, FALSE) EXCEPT !.pc = "fresh"]
           g == AfterFresh(f, FreshAnswer(c_in[1], c_in[2], c_in[3]))
       IN c_out' = IF g.pc = "ret" /\ g.res = "ok" THEN "skip" ELSE "run"
    /\ UNCHANGED <<cfg, threads, halted, executed, raised, saved, c_in, ld, sh, fs, lg, xc, rs, sq, project>>

NextCache == Decide

SpecCache == InitCache /\ [][NextCache]_vars

\* ------------------------------------------------------------ load_config: text
\* A text is a sequence of tokens, a map a function on the keys present.
Keys == {"X", "Y"}
Whitespace == {" ", "\n"}

RECURSIVE TrimStart(_)
TrimStart(s) ==
    IF s # <<>> /\ Head(s) \in Whitespace THEN TrimStart(Tail(s)) ELSE s
RECURSIVE TrimEnd(_)
TrimEnd(s) ==
    IF s # <<>> /\ Last(s) \in Whitespace THEN TrimEnd(Front(s)) ELSE s
\* str::trim
Trim(s) == TrimEnd(TrimStart(s))

\* config.rs line 250 and 254-255: the regex ^\$\((.*)\)$ and its group 1.
DynCapture(v) ==
    IF /\ Len(v) >= 2 /\ Head(v) = "$(" /\ Last(v) = ")"
       /\ \A i \in 2..(Len(v) - 1) : v[i] # "\n"
    THEN Some(SubSeq(v, 2, Len(v) - 1))
    ELSE None

EmptyMap == [k \in {} |-> <<>>]
Maps(K, V) == UNION {[D -> V] : D \in SUBSET K}
\* HashMap::extend, HashMap::insert: the later value wins.
Extend(base, ext) ==
    [k \in DOMAIN base \cup DOMAIN ext |-> IF k \in DOMAIN ext THEN ext[k] ELSE base[k]]

\* A provenance map that records nothing.
ProvPush_Lost(prov, k, src, v) == prov

\* env_provenance.entry(k).or_default().push((src, v))
ProvPush(prov, k, src, v) ==
    [x \in DOMAIN prov \cup {k} |->
        IF x = k
        THEN (IF k \in DOMAIN prov THEN prov[k] ELSE <<>>) \o << <<src, v>> >>
        ELSE prov[x]]

\* lines 193-195, 277-279: one push for every entry of a map.
RECURSIVE ProvPushAll(_, _, _, _)
ProvPushAll(prov, m, src, todo) ==
    IF todo = {} THEN prov
    ELSE LET k == CHOOSE x \in todo : TRUE
         IN ProvPushAll(ProvPush(prov, k, src, m[k]), m, src, todo \ {k})

\* ------------------------------------------------------------ load_config: files
\* The overlay manifests p.<name>.toml; a name is its sequence of characters.
MaxExts == 2
Names == {<<"a">>, <<"a", "b">>, <<"b">>}
\* The code point of a character.
CharCode(c) == IF c = "a" THEN 97 ELSE 98

\* Ord for PathBuf in one directory: the file names, character by character.
RECURSIVE LexLess(_, _)
LexLess(a, b) ==
    IF a = <<>> THEN b # <<>>
    ELSE IF b = <<>> THEN FALSE
    ELSE IF Head(a) # Head(b) THEN CharCode(Head(a)) < CharCode(Head(b))
    ELSE LexLess(Tail(a), Tail(b))

RECURSIVE InsertPath(_, _)
InsertPath(x, s) ==
    IF s = <<>> THEN <<x>>
    ELSE IF LexLess(x, Head(s)) THEN <<x>> \o s
    ELSE <<Head(s)>> \o InsertPath(x, Tail(s))

\* A list of files left in the order glob gave them.
SortPaths_Unsorted(s) == s

\* line 173: extension_files.sort()
RECURSIVE SortPaths(_)
SortPaths(s) == IF s = <<>> THEN <<>> ELSE InsertPath(Head(s), SortPaths(Tail(s)))

\* line 168: the matches of p.*.toml, in whatever order the directory gives.
Globbed(S) == {s \in [1..Cardinality(S) -> S] : Range(s) = S}

\* lines 223-225
EnvFilename(penv) == IF IsSome(penv) THEN <<".env.", Unwrap(penv)>> ELSE <<".env">>

\* ------------------------------------------------------------ load_config: shell
\* What a dynamic command does with the environment it is given: the lines
\* it writes to stdout and to stderr, and its exit code.
Exec(cmd, env) ==
    IF cmd = <<"pad">> THEN [out |-> << <<" ", "a", " ">> >>, err |-> <<>>, code |-> 0]
    ELSE IF cmd = <<"both">> THEN [out |-> << <<"a">> >>, err |-> << <<"e">> >>, code |-> 0]
    ELSE IF cmd = <<"fail">> THEN [out |-> << <<"a">> >>, err |-> <<>>, code |-> 1]
    ELSE IF cmd = <<"echoY">>
         THEN [out |-> << IF "Y" \in DOMAIN env THEN env["Y"] ELSE <<>> >>,
               err |-> <<>>, code |-> 0]
    ELSE [out |-> <<>>, err |-> <<>>, code |-> 127]

\* utils.rs lines 109-159: two reader threads append the lines of stdout and
\* of stderr to the one captured_log, in the order they get the lock.
RECURSIVE Merges(_, _)
Merges(a, b) ==
    IF a = <<>> THEN {b}
    ELSE IF b = <<>> THEN {a}
    ELSE {<<Head(a)>> \o m : m \in Merges(Tail(a), b)}
         \cup {<<Head(b)>> \o m : m \in Merges(a, Tail(b))}

\* utils.rs lines 122-123, 148-149: push_str(&l); push('\n')
RECURSIVE Joined(_)
Joined(ls) == IF ls = <<>> THEN <<>> ELSE Head(ls) \o <<"\n">> \o Joined(Tail(ls))

\* utils.rs lines 66-210 with CaptureMode::Buffer and no timeout: Err when the
\* shell cannot be spawned, else (code, final_log).
run_shell_command(cmd, env) ==
    {[err |-> TRUE, code |-> 0, log |-> <<>>]} \cup
    {[err |-> FALSE, code |-> Exec(cmd, env).code, log |-> Joined(m)] :
        m \in Merges(Exec(cmd, env).out, Exec(cmd, env).err)}

\* ------------------------------------------------------------ load_config: steps
\* ld.dir is the directory: p.toml (present or not, its env and runner
\* tables, whether it holds both [project] and [module]), the overlays by
\* name, the .env files by name, and the P_ENV variable of the process.
StartLoad(dir, round, first) ==
    [pc |-> "start", round |-> round, dir |-> dir, first |-> first,
     env |-> EmptyMap, prov |-> EmptyMap, runner |-> EmptyMap, files |-> <<>>,
     todo |-> {}, updates |-> EmptyMap, snap |-> EmptyMap]

Loading(pc) == ld.pc = pc
Failed(l) == [l EXCEPT !.pc = "failed"]
LoadUnchanged ==
    UNCHANGED <<cfg, threads, halted, executed, raised, saved, c_in, c_out, sh,
                fs, lg, xc, rs, sq, project>>

\* lines 125-138: p.toml is read and parsed, and every key of its env table
\* starts its provenance. Lines 164-173: the overlays are listed and sorted.
ReadBase ==
    /\ Loading("start")
    /\ IF ~ld.dir.exists
       THEN ld' = Failed(ld)
       ELSE \E g \in Globbed(DOMAIN ld.dir.exts) :
               ld' = [ld EXCEPT
                   !.pc = "ext",
                   !.env = ld.dir.base.env,
                   !.prov = [k \in DOMAIN ld.dir.base.env |->
                                << <<<<"p.toml">>, ld.dir.base.env[k]>> >>],
                   !.runner = ld.dir.base.runner,
                   !.files = SortPaths(g)]
    /\ LoadUnchanged

\* lines 70-78: merge_configurations, env and runner tables.
merge_configurations(l, ext) ==
    [l EXCEPT !.env = Extend(l.env, ext.env), !.runner = Extend(l.runner, ext.runner)]

\* lines 175-214: the next overlay.
LoadExtension ==
    /\ Loading("ext") /\ ld.files # <<>>
    /\ LET ext_name == Head(ld.files)
           ext == ld.dir.exts[ext_name]
           l == [ld EXCEPT !.files = Tail(@),
                           !.prov = ProvPushAll(@, ext.env, ext_name, DOMAIN ext.env)]
       IN ld' = merge_configurations(l, ext)
    /\ LoadUnchanged

\* lines 234-242: the items of the .env file, in file order; an item that
\* does not parse ends the load.
RECURSIVE LoadItems(_, _, _)
LoadItems(l, env_filename, items) ==
    IF items = <<>> THEN l
    ELSE IF Head(items) = <<"bad">> THEN Failed(l)
    ELSE LET key == Head(items)[1]
             val == Head(items)[2]
         IN LoadItems([l EXCEPT !.prov = ProvPush(@, key, env_filename, val),
                                !.env = Extend(@, [k \in {key} |-> val])],
                      env_filename, Tail(items))

\* lines 216-251: [project] and [module] exclude each other; the .env variant
\* P_ENV names is loaded when it exists; the dynamic pass starts.
LoadDotenv ==
    /\ Loading("ext") /\ ld.files = <<>>
    /\ LET env_filename == EnvFilename(ld.dir.penv)
           l == IF env_filename \in DOMAIN ld.dir.dotenv
                THEN LoadItems(ld, env_filename, ld.dir.dotenv[env_filename])
                ELSE ld
       IN ld' = IF ld.dir.both \/ l.pc = "failed" THEN Failed(ld)
                ELSE [l EXCEPT !.pc = "dyn", !.todo = DOMAIN l.env]
    /\ LoadUnchanged

\* lines 253-274: one turn of `for (k, v) in &config.env`, the map's
\* iteration order being any. The command gets &config.env, which the loop
\* does not change; its trimmed output goes to `updates`.
ResolveDynamic ==
    /\ Loading("dyn")
    /\ \E k \in ld.todo :
          LET caps == DynCapture(ld.env[k])
              l == [ld EXCEPT !.todo = @ \ {k}]
          IN IF caps = None \/ Trim(Unwrap(caps)) = <<>>
             THEN ld' = l
             ELSE \E r \in run_shell_command(Unwrap(caps), ld.env) :
                     ld' = IF r.err THEN Failed(ld)
                           ELSE IF r.code # 0 THEN Failed(ld)
                           ELSE [l EXCEPT !.updates =
                                    Extend(@, [x \in {k} |-> Trim(r.log)])]
    /\ LoadUnchanged

\* lines 276-283
ApplyUpdates ==
    /\ Loading("dyn") /\ ld.todo = {}
    /\ ld' = [ld EXCEPT
          !.pc = "done",
          !.snap = ld.env,
          !.prov = ProvPushAll(@, ld.updates, <<"dynamic">>, DOMAIN ld.updates),
          !.env = Extend(@, ld.updates)]
    /\ LoadUnchanged

\* The same directory is loaded a second time.
Reload ==
    /\ ld.pc \in {"done", "failed"} /\ ld.round = 1
    /\ ld' = StartLoad(ld.dir, 2, [pc |-> ld.pc, env |-> ld.env, runner |-> ld.runner])
    /\ LoadUnchanged

\* ------------------------------------------------------------ load_config: inputs
Layer(e, r) == [env |-> e, runner |-> r]
Directory(ex, base, both, exts, dotenv, penv) ==
    [exists |-> ex, base |-> base, both |-> both, exts |-> exts,
     dotenv |-> dotenv, penv |-> penv]

OneKey(k, v) == [x \in {k} |-> v]
NoFiles == [n \in {} |-> <<>>]
DotEnv(items) == [n \in {<<".env">>} |-> items]

\* Directories with overlays and .env variants, plain values only.
ExtLayers ==
    {Layer(EmptyMap, EmptyMap),
     Layer(OneKey("X", <<"b">>), EmptyMap),
     Layer(OneKey("Y", <<"b">>), OneKey("t", "r1")),
     Layer(OneKey("X", <<"c">>), OneKey("t", "r2"))}
DotEnvs ==
    {NoFiles,
     DotEnv(<< <<"X", <<"c">>>> >>),
     DotEnv(<< <<"X", <<"c">>>>, <<"X", <<"a">>>> >>),
     DotEnv(<< <<"bad">> >>),
     [n \in {<<".env.", "prod">>} |-> << <<"Y", <<"c">>>> >>],
     [n \in {<<".env">>, <<".env.", "prod">>} |->
         IF n = <<".env">> THEN << <<"X", <<"c">>>> >> ELSE << <<"X", <<"b">>>> >>]}
LayeredDirs ==
    {Directory(TRUE, Layer(e, OneKey("t", "r0")), FALSE, exts, dot, penv) :
        e \in Maps(Keys, {<<"a">>}),
        exts \in UNION {[D -> ExtLayers] :
                          D \in {N \in SUBSET Names : Cardinality(N) <= MaxExts}},
        dot \in DotEnvs, penv \in {None, Some("prod")}}

\* Directories whose values are dynamic.
DynamicX ==
    {<<"a">>, <<"$(", "pad", ")">>, <<"$(", "both", ")">>, <<"$(", "fail", ")">>,
     <<"$(", "echoY", ")">>, <<"$(", " ", ")">>, <<"$(", "pad", ")", "\n">>}
DynamicY == {<<"a">>, <<"$(", "pad", ")">>, <<"$(", "both", ")">>}
DynamicDirs ==
    {Directory(ex, Layer(e, EmptyMap), both, NoFiles, dot, None) :
        ex \in BOOLEAN, both \in BOOLEAN,
        e \in UNION {[D -> DynamicX \cup DynamicY] : D \in SUBSET Keys}
                \cap {m \in Maps(Keys, DynamicX \cup DynamicY) :
                        "Y" \in DOMAIN m => m["Y"] \in DynamicY},
        dot \in {NoFiles, DotEnv(<< <<"Y", <<"$(", "both", ")">>>> >>)}}

Dirs == LayeredDirs \cup DynamicDirs

InitLoad ==
    /\ cfg = Manifest(DefaultTask, DefaultTask, DefaultTask)
    /\ threads = [T \in {} |-> <<>>]
    /\ halted = "no"
    /\ executed = {}
    /\ raised = {}
    /\ saved = {}
    /\ c_in = <<>>
    /\ c_out = "none"
    /\ project = NoProject
    /\ \E dir \in Dirs :
          ld = StartLoad(dir, 1, [pc |-> "none", env |-> EmptyMap, runner |-> EmptyMap])
    /\ sh = Idle
    /\ UnitsIdle

NextLoad ==
    \/ ReadBase
    \/ LoadExtension
    \/ LoadDotenv
    \/ ResolveDynamic
    \/ ApplyUpdates
    \/ Reload

SpecLoad == InitLoad /\ [][NextLoad]_vars

\* ------------------------------------------------------------ shell: syntax
\* ast.rs: an Arg is a list of parts, a part a literal or a variable name.
Lit(x) == [lit |-> TRUE, s |-> x]
Variable(x) == [lit |-> FALSE, s |-> x]
Word(x) == <<Lit(x)>>
Ref(x) == <<Variable(x)>>

Simple(program, args) == [op |-> "simple", program |-> program, args |-> args]
Assignment(key, value) == [op |-> "assign", key |-> key, value |-> value]
And(l, r) == [op |-> "and", left |-> l, right |-> r]
Or(l, r) == [op |-> "or", left |-> l, right |-> r]
Sequence(l, r) == [op |-> "seq", left |-> l, right |-> r]
Pipe(l, r) == [op |-> "pipe", left |-> l, right |-> r]
Redirect(cmd, target, mode, source_fd) ==
    [op |-> "redirect", cmd |-> cmd, target |-> target, mode |-> mode,
     source_fd |-> source_fd]
Subshell(cmd) == [op |-> "subshell", cmd |-> cmd]
IfThen(cond, then_branch, else_branch) ==
    [op |-> "if", cond |-> cond, then_branch |-> then_branch,
     else_branch |-> else_branch]
While(cond, body) == [op |-> "while", cond |-> cond, body |-> body]
\* runner/mod.rs lines 99-109: what recursive_runner reads of a task: its
\* dependencies (tasks), the parallel flag, its command lines.
Task(deps, parallel, cmds) ==
    [op |-> "task", deps |-> deps, parallel |-> parallel, cmds |-> cmds]

\* parser.rs lines 110-137: one redirection, fd the digits before the
\* operator if any.
parse_redirect_entry(fd, operator, target) ==
    LET stream == IF operator = "<" THEN 0 ELSE 1
        source_fd == IF IsSome(fd) THEN Unwrap(fd) ELSE stream
    IN [mode |-> IF operator = ">&" THEN "merge"
                 ELSE IF operator = ">>" THEN "append"
                 ELSE IF operator = ">" THEN "overwrite"
                 ELSE "input",
        target |-> target, source_fd |-> source_fd]

\* parser.rs lines 98-105: redirects.into_iter().rev().fold(cmd, ..): the
\* last redirection of the line wraps the command first.
RECURSIVE parse_redirect(_, _)
parse_redirect(cmd, redirects) ==
    IF redirects = <<>> THEN cmd
    ELSE LET e == Head(redirects)
         IN Redirect(parse_redirect(cmd, Tail(redirects)), e.target, e.mode, e.source_fd)

\* ------------------------------------------------------------ shell: context
\* context.rs: cwd is a path, a list of components; env maps names to texts.
Context(env, cwd) == [env |-> env, cwd |-> cwd, exit_code |-> 0]

\* The context a line starts in (context.rs 21-35).
StartContext == Context([x \in {"K", "HOME"} |-> IF x = "K" THEN <<"o">> ELSE <<"/", "d">>],
                        <<"/">>)

\* context.rs lines 37-44
clone_for_parallel(ctx) == [env |-> ctx.env, cwd |-> ctx.cwd, exit_code |-> ctx.exit_code]

\* A subshell or pipeline side handed the caller's own context.
SubContext_Alias(own, cloned) == own

\* executor.rs lines 85 and 150: the context the left side of a pipe and the
\* body of a subshell run in.
SubContext(own, cloned) == cloned

\* executor.rs lines 198-204 and 211-217: one part of an argument.
PartText(part, ctx) ==
    IF part.lit THEN <<part.s>>
    ELSE IF part.s = "?" THEN <<ToString(ctx.exit_code)>>
    ELSE IF part.s \in DOMAIN ctx.env THEN ctx.env[part.s]
    ELSE <<>>

\* executor.rs lines 186-197: a leading ~ is the HOME of the context.
FirstText(part, ctx) ==
    IF part.lit /\ part.s = "~" /\ "HOME" \in DOMAIN ctx.env
    THEN ctx.env["HOME"]
    ELSE PartText(part, ctx)

RECURSIVE ExpandParts(_, _)
ExpandParts(parts, ctx) ==
    IF parts = <<>> THEN <<>>
    ELSE PartText(Head(parts), ctx) \o ExpandParts(Tail(parts), ctx)

\* An expansion that reads the context the line was parsed in.
expand_arg_AtParse(arg, ctx) ==
    IF arg = <<>> THEN <<>>
    ELSE FirstText(Head(arg), StartContext) \o ExpandParts(Tail(arg), StartContext)

\* executor.rs lines 180-225
expand_arg(arg, ctx) ==
    IF arg = <<>> THEN <<>>
    ELSE FirstText(Head(arg), ctx) \o ExpandParts(Tail(arg), ctx)

\* ------------------------------------------------------------ shell: results, sinks
NoRes == [k |-> "none", code |-> 0]
Ok(code) == [k |-> "ok", code |-> code]
Err == [k |-> "err", code |-> 0]

\* Where a stream goes: None inherits the process's, Some names a writer.
Writer(kind, name) == Some([kind |-> kind, name |-> name])
FileWriter(path) == Writer("file", path)

ExistingDirs == {<<"/">>, <<"/", "d">>, <<"/", "d", "d">>}
ExistingFiles == {<<"in">>}

\* common.rs resolve_path: a relative path is taken from the context's cwd.
resolve_path(ctx, path) ==
    IF path # <<>> /\ Head(path) = "/" THEN path ELSE ctx.cwd \o path

\* cd.rs lines 11-32
CdCommand(args, ctx) ==
    LET path_str == IF Len(args) < 2
                    THEN (IF "HOME" \in DOMAIN ctx.env THEN ctx.env["HOME"] ELSE <<"/">>)
                    ELSE args[2]
        new_path == resolve_path(ctx, path_str)
    IN IF new_path \in ExistingDirs
       THEN {[res |-> Ok(0), ctx |-> [ctx EXCEPT !.cwd = new_path], wrote |-> FALSE]}
       ELSE {[res |-> Err, ctx |-> ctx, wrote |-> FALSE]}

\* export.rs lines 18-25: every argument NAME=value is inserted.
RECURSIVE ExportArgs(_, _)
ExportArgs(args, env) ==
    IF args = <<>> THEN env
    ELSE LET arg == Head(args)
             next == IF Len(arg) >= 2 /\ arg[2] = "="
                     THEN Extend(env, [x \in {arg[1]} |-> SubSeq(arg, 3, Len(arg))])
                     ELSE env
         IN ExportArgs(Tail(args), next)
ExportCommand(args, ctx) ==
    {[res |-> Ok(0), ctx |-> [ctx EXCEPT !.env = ExportArgs(Tail(args), @)],
      wrote |-> FALSE]}

\* system.rs lines 12-105: the program is spawned in ctx.cwd with ctx.env and
\* waited for. `sys` writes to both its streams and exits with any code, `ne`
\* compares its two arguments; anything else cannot be spawned.
SystemCommand(args, ctx) ==
    IF args[1] = <<"sys">>
    THEN {[res |-> Err, ctx |-> ctx, wrote |-> FALSE]}
         \cup {[res |-> Ok(c), ctx |-> ctx, wrote |-> TRUE] : c \in {0, 1}}
    ELSE IF args[1] = <<"ne">> /\ Len(args) = 3
    THEN {[res |-> Ok(IF args[2] # args[3] THEN 0 ELSE 1), ctx |-> ctx, wrote |-> FALSE]}
    ELSE {[res |-> Err, ctx |-> ctx, wrote |-> FALSE]}

\* executor.rs lines 72-78: the registry, then the system.
Dispatch(args, ctx) ==
    IF args[1] = <<"cd">> THEN CdCommand(args, ctx)
    ELSE IF args[1] = <<"export">> THEN ExportCommand(args, ctx)
    ELSE SystemCommand(args, ctx)

\* ------------------------------------------------------------ shell: interpreter
\* One frame per execute_expr call in progress; a thread per pipeline side.
\* A frame remembers the results of its children (r1, r2) and the context it
\* was entered with.
ShMain == <<"main">>
Fresh(node, ctx, out, err) ==
    [node |-> node, st |-> "new", ctx |-> ctx, out |-> out, err |-> err,
     r1 |-> NoRes, r2 |-> NoRes, res |-> NoRes, kid |-> <<>>, i |-> 0,
     entered |-> Context(EmptyMap, <<>>)]
Finished(f, r) == [f EXCEPT !.st = "done", !.res = r]
ReplaceTop(stack, f) == Append(Front(stack), f)
ShLive == IF sh.pc = "run" THEN {t \in DOMAIN sh.threads : ~sh.threads[t].fin} ELSE {}
ShTop(t) == Last(sh.threads[t].stack)
ShUnchanged ==
    UNCHANGED <<cfg, threads, halted, executed, raised, saved, c_in, c_out, ld,
                fs, lg, xc, rs, sq, project>>

\* A sequence that always goes on to its right side.
Proceed_Always(op, left_res) == TRUE

\* executor.rs lines 265-269 and 281-285
Proceed(op, left_res) ==
    IF op = "and" THEN left_res = 0
    ELSE IF op = "or" THEN left_res # 0
    ELSE TRUE

\* executor.rs line 113: opening the target of a redirection
OpenFails(target, mode) ==
    target = <<>> \/ (mode = "input" /\ target \notin ExistingFiles)

\* A redirection of one stream that replaces both.
RedirectSinks_Both(mode, source_fd, out, err, file) ==
    IF mode = "merge" THEN (IF IsSome(out) THEN <<out, out>> ELSE <<None, None>>)
    ELSE IF mode = "input" THEN <<out, err>>
    ELSE <<file, file>>

\* executor.rs lines 95-133: the stdout and stderr handed to the command.
RedirectSinks(mode, source_fd, out, err, file) ==
    IF mode = "merge" THEN (IF IsSome(out) THEN <<out, out>> ELSE <<None, None>>)
    ELSE IF mode = "input" THEN <<out, err>>
    ELSE IF source_fd = 2 THEN <<out, file>>
    ELSE <<file, err>>

\* executor.rs lines 94-176: a compound node starts its first child.
ShEnter(t) ==
    /\ t \in ShLive
    /\ ShTop(t).st = "new"
    /\ ShTop(t).node.op \in {"and", "or", "seq", "redirect", "subshell", "if", "while"}
    /\ LET f == ShTop(t)
           n == f.node
           ctx == sh.ctxs[f.ctx]
           waiting == [f EXCEPT !.st = "wait1", !.entered = ctx]
       IN IF n.op \in {"and", "or", "seq"}
          THEN sh' = [sh EXCEPT !.threads[t].stack =
                         Append(ReplaceTop(@, waiting), Fresh(n.left, f.ctx, f.out, f.err))]
          ELSE IF n.op = "subshell"
          THEN LET cloned == Len(sh.ctxs) + 1
               IN sh' = [sh EXCEPT
                         !.ctxs = Append(@, clone_for_parallel(ctx)),
                         !.threads[t].stack =
                             Append(ReplaceTop(@, waiting),
                                    Fresh(n.cmd, SubContext(f.ctx, cloned), f.out, f.err))]
          ELSE IF n.op \in {"if", "while"}
          THEN sh' = [sh EXCEPT !.threads[t].stack =
                         Append(ReplaceTop(@, waiting), Fresh(n.cond, f.ctx, None, f.err))]
          ELSE LET target_str == IF n.mode = "merge" THEN <<>> ELSE expand_arg(n.target, ctx)
                   sinks == RedirectSinks(n.mode, n.source_fd, f.out, f.err,
                                          FileWriter(target_str))
               IN IF n.mode # "merge" /\ OpenFails(target_str, n.mode)
                  THEN sh' = [sh EXCEPT !.threads[t].stack = ReplaceTop(@, Finished(f, Err))]
                  ELSE sh' = [sh EXCEPT !.threads[t].stack =
                                 Append(ReplaceTop(@, waiting),
                                        Fresh(n.cmd, f.ctx, sinks[1], sinks[2]))]
    /\ ShUnchanged

\* executor.rs lines 83-91: the pipe is made (or not), the left side starts
\* on a thread of its own with a cloned context, the right side in place.
ShPipe(t) ==
    /\ t \in ShLive
    /\ ShTop(t).st = "new"
    /\ ShTop(t).node.op = "pipe"
    /\ LET f == ShTop(t)
           n == f.node
           kid == Append(t, ToString(Len(sh.threads[t].stack)))
           cloned == Len(sh.ctxs) + 1
       IN \/ sh' = [sh EXCEPT !.threads[t].stack = ReplaceTop(@, Finished(f, Err))]
          \/ sh' = [sh EXCEPT
                    !.ctxs = Append(@, clone_for_parallel(sh.ctxs[f.ctx])),
                    !.threads =
                        Extend([@ EXCEPT ![t].stack =
                                   Append(ReplaceTop(@, [f EXCEPT !.st = "wait1", !.kid = kid,
                                                              !.entered = sh.ctxs[f.ctx]]),
                                          Fresh(n.right, f.ctx, f.out, f.err))],
                               [x \in {kid} |->
                                   [stack |-> <<Fresh(n.left, SubContext(f.ctx, cloned),
                                                      Writer("pipe", kid), f.err)>>,
                                    fin |-> FALSE, res |-> NoRes]])]
    /\ ShUnchanged

\* A simple command whose raised error is stored as exit code 1.
ShSimple_SetsCode(t) ==
    /\ t \in ShLive
    /\ ShTop(t).st = "new"
    /\ ShTop(t).node.op = "simple"
    /\ LET f == ShTop(t)
           ctx == sh.ctxs[f.ctx]
           full_args == <<expand_arg(f.node.program, ctx)>>
                        \o [i \in 1..Len(f.node.args) |-> expand_arg(f.node.args[i], ctx)]
       IN \E o \in Dispatch(full_args, ctx) :
            sh' = [sh EXCEPT
                   !.threads[t].stack = ReplaceTop(@, Finished(f, o.res)),
                   !.ctxs[f.ctx] = [o.ctx EXCEPT !.exit_code =
                                       IF o.res.k = "ok" THEN o.res.code ELSE 1],
                   !.log = Append(@, [args |-> full_args, out |-> f.out, err |-> f.err,
                                      ctx |-> f.ctx, cwd |-> ctx.cwd, env |-> ctx.env,
                                      exit_code |-> ctx.exit_code, thread |-> t,
                                      wrote |-> o.wrote, res |-> o.res])]
    /\ ShUnchanged

\* executor.rs lines 47-82: the words are expanded, the command looked up and
\* run; a failure of the command itself leaves exit_code alone.
ShSimple(t) ==
    /\ t \in ShLive
    /\ ShTop(t).st = "new"
    /\ ShTop(t).node.op = "simple"
    /\ LET f == ShTop(t)
           ctx == sh.ctxs[f.ctx]
           full_args == <<expand_arg(f.node.program, ctx)>>
                        \o [i \in 1..Len(f.node.args) |-> expand_arg(f.node.args[i], ctx)]
       IN \E o \in Dispatch(full_args, ctx) :
            sh' = [sh EXCEPT
                   !.threads[t].stack = ReplaceTop(@, Finished(f, o.res)),
                   !.ctxs[f.ctx] = IF o.res.k = "ok"
                                   THEN [o.ctx EXCEPT !.exit_code = o.res.code]
                                   ELSE o.ctx,
                   !.log = Append(@, [args |-> full_args, out |-> f.out, err |-> f.err,
                                      ctx |-> f.ctx, cwd |-> ctx.cwd, env |-> ctx.env,
                                      exit_code |-> ctx.exit_code, thread |-> t,
                                      wrote |-> o.wrote, res |-> o.res])]
    /\ ShUnchanged

\* executor.rs lines 144-148
ShAssign(t) ==
    /\ t \in ShLive
    /\ ShTop(t).st = "new"
    /\ ShTop(t).node.op = "assign"
    /\ LET f == ShTop(t)
           val_str == expand_arg(f.node.value, sh.ctxs[f.ctx])
       IN sh' = [sh EXCEPT
                 !.threads[t].stack = ReplaceTop(@, Finished(f, Ok(0))),
                 !.ctxs[f.ctx].env = Extend(@, [x \in {f.node.key} |-> val_str])]
    /\ ShUnchanged

\* runner/mod.rs lines 146-148 and 216-262: the calls a task makes in its own
\* thread, each with the task's own context: its dependencies when they are
\* sequential, then its command lines.
TaskChildren(n) == (IF n.parallel THEN <<>> ELSE n.deps) \o n.cmds
TaskStep(q) ==
    LET ch == TaskChildren(q.node)
    IN IF q.i < Len(ch)
       THEN [frame |-> [q EXCEPT !.st = "wait1", !.i = @ + 1],
             push |-> Some(Fresh(ch[q.i + 1], q.ctx, q.out, q.err))]
       ELSE [frame |-> Finished(q, Ok(0)), push |-> None]

\* What the caller p does with the result r of the child it waited for:
\* the caller's frame, and the next child if there is one.
Resume(p, r) ==
    LET n == p.node
        stop(q, x) == [frame |-> Finished(q, x), push |-> None]
        go(q, st, node, out) ==
            [frame |-> [q EXCEPT !.st = st], push |-> Some(Fresh(node, p.ctx, out, p.err))]
    IN IF n.op \in {"and", "or", "seq"}
       THEN IF p.st = "wait1"
            THEN LET q == [p EXCEPT !.r1 = r]
                 IN IF r.k = "err" THEN stop(q, r)
                    ELSE IF Proceed(n.op, r.code) THEN go(q, "wait2", n.right, p.out)
                    ELSE stop(q, r)
            ELSE stop([p EXCEPT !.r2 = r], r)
       ELSE IF n.op = "pipe"
       THEN [frame |-> [p EXCEPT !.st = "join", !.r2 = r], push |-> None]
       ELSE IF n.op = "if"
       THEN IF p.st = "wait1"
            THEN LET q == [p EXCEPT !.r1 = r]
                 IN IF r.k = "err" THEN stop(q, r)
                    ELSE IF r.code = 0 THEN go(q, "wait2", n.then_branch, p.out)
                    ELSE IF IsSome(n.else_branch)
                    THEN go(q, "wait2", Unwrap(n.else_branch), p.out)
                    ELSE stop(q, Ok(0))
            ELSE stop([p EXCEPT !.r2 = r], r)
       ELSE IF n.op = "while"
       THEN IF r.k = "err" THEN stop(p, r)
            ELSE IF p.st = "wait1"
            THEN IF r.code = 0 THEN go([p EXCEPT !.r1 = r], "wait2", n.body, None)
                 ELSE stop([p EXCEPT !.r1 = r], Ok(0))
            ELSE go([p EXCEPT !.r2 = r], "wait1", n.cond, None)
       ELSE IF n.op = "task"
       THEN IF r.k = "err" \/ r.code # 0 THEN stop(p, Err) ELSE TaskStep(p)
       ELSE stop([p EXCEPT !.r1 = r], r)

\* A call of execute_expr returns to its caller.
ShReturn(t) ==
    /\ t \in ShLive
    /\ Len(sh.threads[t].stack) >= 2
    /\ ShTop(t).st = "done"
    /\ LET stack == sh.threads[t].stack
           p == stack[Len(stack) - 1]
           next == Resume(p, ShTop(t).res)
           below == SubSeq(stack, 1, Len(stack) - 2)
       IN sh' = [sh EXCEPT !.threads[t].stack =
                    IF IsSome(next.push)
                    THEN below \o <<next.frame, Unwrap(next.push)>>
                    ELSE Append(below, next.frame)]
    /\ ShUnchanged

\* A pipe that returns without joining its left thread.
ShJoin_NoWait(t) ==
    /\ t \in ShLive
    /\ ShTop(t).st = "join"
    /\ sh' = [sh EXCEPT !.threads[t].stack = ReplaceTop(@, Finished(ShTop(t), ShTop(t).r2))]
    /\ ShUnchanged

\* executor.rs lines 91-92: left_thread.join(), then the right side's result.
ShJoin(t) ==
    /\ t \in ShLive
    /\ ShTop(t).st = "join"
    /\ sh.threads[ShTop(t).kid].fin
    /\ sh' = [sh EXCEPT !.threads[t].stack = ReplaceTop(@, Finished(ShTop(t), ShTop(t).r2))]
    /\ ShUnchanged

\* The outermost call of a thread returns: the left side of a pipe ends its
\* thread, the line ends the run.
ShFinish(t) ==
    /\ t \in ShLive
    /\ Len(sh.threads[t].stack) = 1
    /\ ShTop(t).st = "done"
    /\ sh' = [sh EXCEPT !.threads[t].fin = TRUE,
                        !.threads[t].res = ShTop(t).res,
                        !.pc = IF t = ShMain THEN "done" ELSE @]
    /\ ShUnchanged

\* ------------------------------------------------------------ shell: lines run
Sys == Simple(Word("sys"), <<>>)
SysK == Simple(Word("sys"), <<Ref("K")>>)
Cd(dir) == Simple(Word("cd"), <<dir>>)
Export(key, value) == Simple(Word("export"), << <<Lit(key), Lit("="), Lit(value)>> >>)
Ne(a, b) == Simple(Word("ne"), <<a, b>>)

\* a && b, a || b, a ; b and their left-associated chains (parser.rs 54-71)
LogicLines ==
    {And(Sys, Sys), Or(Sys, Sys), Sequence(Sys, Sys),
     And(Or(Sys, Sys), Sys), Or(And(Sys, Sys), Sys),
     Sequence(Sys, Assignment("R", Ref("?")))}

\* a | b (parser.rs 74-90)
PipeLines ==
    {Pipe(Sys, Sys), Pipe(Pipe(Sys, Sys), Sys), Pipe(Sys, And(Sys, Sys)),
     Pipe(Sequence(Assignment("K", Word("l")), SysK), Subshell(Pipe(SysK, Sys)))}

\* ( K=in; cd d; ( export K=deep; cd d ) ); sys $K    and    cd ~; (cd /); sys
SubshellLines ==
    {Sequence(Subshell(Sequence(Assignment("K", Word("in")),
                       Sequence(Cd(Word("d")),
                                Subshell(Sequence(Export("K", "deep"), Cd(Word("d"))))))),
              SysK),
     Sequence(Cd(Word("~")), Sequence(Subshell(Cd(Word("/"))), Sys)),
     Sequence(Subshell(Cd(Word("x"))), Sys)}

\* sys > f 2>&1, sys 2> f, sys 2>&1 > f, sys 2>&1, sys >> f 2> g, sys < in,
\* sys < f, (sys; sys) > f 2>&1, sys > $U
RedirectLines ==
    {parse_redirect(Sys, <<parse_redirect_entry(None, ">", Word("f")),
                           parse_redirect_entry(Some(2), ">&", Word("1"))>>),
     parse_redirect(Sys, <<parse_redirect_entry(Some(2), ">", Word("f"))>>),
     parse_redirect(Sys, <<parse_redirect_entry(Some(2), ">&", Word("1")),
                           parse_redirect_entry(None, ">", Word("f"))>>),
     parse_redirect(Sys, <<parse_redirect_entry(Some(2), ">&", Word("1"))>>),
     parse_redirect(Sys, <<parse_redirect_entry(None, ">>", Word("f")),
                           parse_redirect_entry(Some(2), ">", Word("g"))>>),
     parse_redirect(Sys, <<parse_redirect_entry(None, "<", Word("in"))>>),
     parse_redirect(Sys, <<parse_redirect_entry(None, "<", Word("f"))>>),
     parse_redirect(Subshell(Sequence(Sys, Sys)),
                    <<parse_redirect_entry(None, ">", Word("f")),
                      parse_redirect_entry(Some(2), ">&", Word("1"))>>),
     parse_redirect(Sys, <<parse_redirect_entry(None, ">", Ref("U"))>>)}

\* K=v; sys $K      K=v; sys > $K      K=0; while ne $K 2; do if ne $K 0; then
\* K=2; else K=1; fi; done      if sys; then K=t; fi; sys $K
\* K=0; while ne $K 1; do sys; K=1; done
DelayedLines ==
    {Sequence(Assignment("K", Word("v")), SysK),
     Sequence(Assignment("K", Word("v")),
              parse_redirect(Sys, <<parse_redirect_entry(None, ">", Ref("K"))>>)),
     Sequence(Assignment("K", Word("0")),
              While(Ne(Ref("K"), Word("2")),
                    IfThen(Ne(Ref("K"), Word("0")),
                           Assignment("K", Word("2")),
                           Some(Assignment("K", Word("1")))))),
     Sequence(IfThen(Sys, Assignment("K", Word("t")), None), SysK),
     Sequence(Assignment("K", Word("0")),
              While(Ne(Ref("K"), Word("1")),
                    Sequence(Sys, Assignment("K", Word("1")))))}

Lines == LogicLines \cup PipeLines \cup SubshellLines \cup RedirectLines \cup DelayedLines

\* The writers run_command_line is given: none, or the task's capture buffers.
StartWriters == {<<None, None>>, <<Writer("buf", <<"out">>), Writer("buf", <<"err">>)>>}

InitShell ==
    /\ cfg = Manifest(DefaultTask, DefaultTask, DefaultTask)
    /\ threads = [T \in {} |-> <<>>]
    /\ halted = "no"
    /\ executed = {}
    /\ raised = {}
    /\ saved = {}
    /\ c_in = <<>>
    /\ c_out = "none"
    /\ project = NoProject
    /\ ld = Idle
    /\ UnitsIdle
    /\ \E line \in Lines, w \in StartWriters :
         sh = [pc |-> "run", line |-> line, ctxs |-> <<StartContext>>, log |-> <<>>,
               threads |-> [x \in {ShMain} |->
                               [stack |-> <<Fresh(line, 1, w[1], w[2])>>,
                                fin |-> FALSE, res |-> NoRes]]]

NextShell ==
    \/ \E t \in ShLive : ShEnter(t)
    \/ \E t \in ShLive : ShPipe(t)
    \/ \E t \in ShLive : ShSimple(t)
    \/ \E t \in ShLive : ShAssign(t)
    \/ \E t \in ShLive : ShReturn(t)
    \/ \E t \in ShLive : ShJoin(t)
    \/ \E t \in ShLive : ShFinish(t)

SpecShell == InitShell /\ [][NextShell]_vars

\* Lines with a command that raises an error: cd to a missing directory.
\* cd x || sys; sys      cd x | sys; R=$?      sys; cd x; sys
\* sys | cd x; sys       (cd x) && sys
RaisingLines ==
    {Sequence(Or(Cd(Word("x")), Sys), Sys),
     Sequence(Pipe(Cd(Word("x")), Sys), Assignment("R", Ref("?"))),
     Sequence(Sys, Sequence(Cd(Word("x")), Sys)),
     Sequence(Pipe(Sys, Cd(Word("x"))), Sys),
     And(Subshell(Cd(Word("x"))), Sys)}

InitRaise ==
    /\ cfg = Manifest(DefaultTask, DefaultTask, DefaultTask)
    /\ threads = [T \in {} |-> <<>>]
    /\ halted = "no"
    /\ executed = {}
    /\ raised = {}
    /\ saved = {}
    /\ c_in = <<>>
    /\ c_out = "none"
    /\ project = NoProject
    /\ ld = Idle
    /\ UnitsIdle
    /\ \E line \in RaisingLines, w \in StartWriters :
         sh = [pc |-> "run", line |-> line, ctxs |-> <<StartContext>>, log |-> <<>>,
               threads |-> [x \in {ShMain} |->
                               [stack |-> <<Fresh(line, 1, w[1], w[2])>>,
                                fin |-> FALSE, res |-> NoRes]]]

SpecRaise == InitRaise /\ [][NextShell]_vars

\* ------------------------------------------------------------ shell: tasks
\* #[derive(Clone)] on ShellContext (context.rs lines 6-12)
Clone(ctx) == [env |-> ctx.env, cwd |-> ctx.cwd, exit_code |-> ctx.exit_code]

Batch(n) == n.parallel /\ n.deps # <<>>
DepThread(t, k) == Append(t, "dep" \o ToString(k))

\* runner/mod.rs lines 146-148, 216-262: a task without a parallel batch
\* starts its first dependency or command line on its own context.
ShTask(t) ==
    /\ t \in ShLive
    /\ ShTop(t).st = "new"
    /\ ShTop(t).node.op = "task" /\ ~Batch(ShTop(t).node)
    /\ LET f == ShTop(t)
           next == TaskStep([f EXCEPT !.entered = sh.ctxs[f.ctx]])
       IN sh' = [sh EXCEPT !.threads[t].stack =
                    IF IsSome(next.push)
                    THEN Append(ReplaceTop(@, next.frame), Unwrap(next.push))
                    ELSE ReplaceTop(@, next.frame)]
    /\ ShUnchanged

\* runner/mod.rs lines 117-134: the context is snapshot, and every dependency
\* of the batch runs on a thread of its own with a clone of the snapshot.
ShBatch(t) ==
    /\ t \in ShLive
    /\ ShTop(t).st = "new"
    /\ ShTop(t).node.op = "task" /\ Batch(ShTop(t).node)
    /\ LET f == ShTop(t)
           deps == f.node.deps
           context_snapshot == Clone(sh.ctxs[f.ctx])
           base == Len(sh.ctxs)
           worker(k) ==
               [stack |-> <<Fresh(deps[k], SubContext(f.ctx, base + k),
                                  Writer("buf", DepThread(t, k)),
                                  Writer("buf", DepThread(t, k)))>>,
                fin |-> FALSE, res |-> NoRes]
       IN sh' = [sh EXCEPT
                 !.ctxs = @ \o [k \in 1..Len(deps) |-> Clone(context_snapshot)],
                 !.threads =
                     [u \in DOMAIN @ \cup {DepThread(t, k) : k \in 1..Len(deps)} |->
                        IF u = t
                        THEN [@[t] EXCEPT !.stack =
                                 ReplaceTop(@, [f EXCEPT !.st = "batch",
                                                         !.entered = sh.ctxs[f.ctx]])]
                        ELSE IF u \in DOMAIN @ THEN @[u]
                        ELSE worker(CHOOSE k \in 1..Len(deps) : DepThread(t, k) = u)]]
    /\ ShUnchanged

\* runner/mod.rs lines 134-141: the batch is collected; one failed dependency
\* fails the task, otherwise the task goes on to its command lines.
ShBatchJoin(t) ==
    /\ t \in ShLive
    /\ ShTop(t).st = "batch"
    /\ LET f == ShTop(t)
           workers == {DepThread(t, k) : k \in 1..Len(f.node.deps)}
           errors == {u \in workers : sh.threads[u].res.k = "err"}
           next == IF errors # {} THEN [frame |-> Finished(f, Err), push |-> None]
                   ELSE TaskStep(f)
       IN /\ \A u \in workers : sh.threads[u].fin
          /\ sh' = [sh EXCEPT !.threads[t].stack =
                       IF IsSome(next.push)
                       THEN Append(ReplaceTop(@, next.frame), Unwrap(next.push))
                       ELSE ReplaceTop(@, next.frame)]
    /\ ShUnchanged

\* Tasks whose dependencies and command lines change the context: `one`
\* assigns and changes directory, `two` exports, `left` changes the context
\* on the left side of a pipeline and on the right side of another.
DepOne == Task(<<>>, FALSE, <<Sequence(Assignment("K", Word("one")), Cd(Word("d")))>>)
DepTwo == Task(<<>>, FALSE, <<Export("K", "two"), SysK>>)
DepLeft ==
    Task(<<>>, FALSE, <<Pipe(Sequence(Assignment("K", Word("l")), Cd(Word("d"))), SysK),
                        Pipe(Sys, Assignment("K", Word("r")))>>)
TaskLines ==
    {Task(<<DepOne, DepTwo>>, par, <<SysK>>) : par \in BOOLEAN}
    \cup {Task(<<DepLeft, DepOne>>, par, <<Pipe(Cd(Word("d")), SysK)>>) : par \in BOOLEAN}
    \cup {Task(<<Task(<<DepTwo>>, inner, <<Assignment("K", Word("mid"))>>), DepOne>>,
               TRUE, <<SysK>>) : inner \in BOOLEAN}
    \cup {DepLeft}

InitScopes ==
    /\ cfg = Manifest(DefaultTask, DefaultTask, DefaultTask)
    /\ threads = [T \in {} |-> <<>>]
    /\ halted = "no"
    /\ executed = {}
    /\ raised = {}
    /\ saved = {}
    /\ c_in = <<>>
    /\ c_out = "none"
    /\ project = NoProject
    /\ ld = Idle
    /\ UnitsIdle
    /\ \E line \in TaskLines :
         sh = [pc |-> "run", line |-> line, ctxs |-> <<StartContext>>, log |-> <<>>,
               threads |-> [x \in {ShMain} |->
                               [stack |-> <<Fresh(line, 1, None, None)>>,
                                fin |-> FALSE, res |-> NoRes]]]

NextScopes ==
    \/ \E t \in ShLive : ShEnter(t)
    \/ \E t \in ShLive : ShPipe(t)
    \/ \E t \in ShLive : ShSimple(t)
    \/ \E t \in ShLive : ShAssign(t)
    \/ \E t \in ShLive : ShReturn(t)
    \/ \E t \in ShLive : ShJoin(t)
    \/ \E t \in ShLive : ShFinish(t)
    \/ \E t \in ShLive : ShTask(t)
    \/ \E t \in ShLive : ShBatch(t)
    \/ \E t \in ShLive : ShBatchJoin(t)

SpecScopes == InitScopes /\ [][NextScopes]_vars

\* ------------------------------------------------------------ builtins: files
\* The file system maps a path, the list of its components from "/", to
\* "dir" or "file".
Root == <<"/">>
IsPrefix(a, b) == Len(a) <= Len(b) /\ SubSeq(b, 1, Len(a)) = a
Parent(p) == IF Len(p) > 1 THEN Front(p) ELSE p
Restrict(f, S) == [x \in S |-> f[x]]
FsOk(code) == [k |-> "ok", code |-> code, why |-> "none"]
FsErr(why) == [k |-> "err", code |-> 0, why |-> why]

\* The system follows a path from `at`: the entry it names, if there is one.
RECURSIVE Walk(_, _, _)
Walk(files, at, rest) ==
    IF at \notin DOMAIN files THEN None
    ELSE IF rest = <<>> THEN Some(at)
    ELSE IF files[at] # "dir" THEN None
    ELSE IF Head(rest) = ".." THEN Walk(files, Parent(at), Tail(rest))
    ELSE Walk(files, Append(at, Head(rest)), Tail(rest))

\* fs::canonicalize of an absolute path
canonicalize(files, p) == Walk(files, Root, Tail(p))
Exists(files, p) == IsSome(canonicalize(files, p))
IsDir(files, p) == Exists(files, p) /\ files[Unwrap(canonicalize(files, p))] = "dir"

\* Where the system would make a new entry named p: in p's parent directory.
Place(files, p) ==
    IF Len(p) > 1 /\ Last(p) # ".." /\ IsDir(files, Front(p))
    THEN Some(Append(Unwrap(canonicalize(files, Front(p))), Last(p)))
    ELSE None

\* The entry p names or would name.
Target(files, p) == IF Exists(files, p) THEN canonicalize(files, p) ELSE Place(files, p)

Subtree(files, at) == {x \in DOMAIN files : IsPrefix(at, x)}
Rebase(x, from, to) == to \o SubSeq(x, Len(from) + 1, Len(x))

\* fs/mod.rs lines 12-67: TRUE when the target may be touched.
check_path_access(target, ctx, files) ==
    IF ctx.capabilities = None \/ Unwrap(ctx.capabilities).allow_paths = None THEN TRUE
    ELSE LET allowed_strs == Unwrap(Unwrap(ctx.capabilities).allow_paths)
             abs_target == IF target # <<>> /\ Head(target) = "/" THEN target
                           ELSE ctx.cwd \o target
             canonical_target ==
                 IF Exists(files, abs_target) THEN Unwrap(canonicalize(files, abs_target))
                 ELSE IF Len(abs_target) > 1 /\ Exists(files, Front(abs_target))
                 THEN Append(Unwrap(canonicalize(files, Front(abs_target))), Last(abs_target))
                 ELSE abs_target
         IN \E i \in 1..Len(allowed_strs) : IsPrefix(allowed_strs[i], canonical_target)

Flags == {"-r", "-R", "-f", "-rf", "-p"}
IsFlag(arg) == arg # <<>> /\ Head(arg) \in Flags
RECURSIVE NotFlags(_)
NotFlags(args) ==
    IF args = <<>> THEN <<>>
    ELSE IF IsFlag(Head(args)) THEN NotFlags(Tail(args))
    ELSE <<Head(args)>> \o NotFlags(Tail(args))

\* rm.rs lines 28-47: the paths in turn; the first failure ends the call.
RECURSIVE RmPaths(_, _, _, _, _)
RmPaths(paths, files, ctx, recursive, force) ==
    IF paths = <<>> THEN [files |-> files, res |-> FsOk(0)]
    ELSE LET p == resolve_path(ctx, Head(paths))
             at == canonicalize(files, p)
         IN IF ~check_path_access(p, ctx, files)
            THEN [files |-> files, res |-> FsErr("security")]
            ELSE IF at = None
            THEN IF force THEN RmPaths(Tail(paths), files, ctx, recursive, force)
                 ELSE [files |-> files, res |-> FsErr("io")]
            ELSE IF files[Unwrap(at)] = "dir" /\ ~recursive
            THEN [files |-> files, res |-> FsErr("io")]
            ELSE IF Unwrap(at) = Root
            THEN [files |-> files, res |-> FsErr("io")]
            ELSE RmPaths(Tail(paths),
                         Restrict(files, DOMAIN files \ Subtree(files, Unwrap(at))),
                         ctx, recursive, force)

\* rm.rs lines 13-49
RmCommand(args, ctx, files) ==
    LET flags == {Head(args[i]) : i \in {j \in 2..Len(args) : IsFlag(args[j])}}
    IN RmPaths(NotFlags(Tail(args)), files, ctx,
               flags \cap {"-r", "-R", "-rf"} # {}, flags \cap {"-f", "-rf"} # {})

\* fs::create_dir_all from `at`: every missing component is made.
RECURSIVE CreateAll(_, _, _)
CreateAll(files, at, rest) ==
    IF rest = <<>> THEN Some(files)
    ELSE IF Head(rest) = ".." THEN CreateAll(files, Parent(at), Tail(rest))
    ELSE LET next == Append(at, Head(rest))
         IN IF next \in DOMAIN files
            THEN (IF files[next] = "dir" THEN CreateAll(files, next, Tail(rest)) ELSE None)
            ELSE CreateAll(Extend(files, [x \in {next} |-> "dir"]), next, Tail(rest))

\* mkdir.rs lines 27-34: the paths in turn, none of them checked.
RECURSIVE MkdirPaths(_, _, _, _)
MkdirPaths(paths, files, ctx, parents) ==
    IF paths = <<>> THEN [files |-> files, res |-> FsOk(0)]
    ELSE LET p == resolve_path(ctx, Head(paths))
             all == CreateAll(files, Root, Tail(p))
         IN IF parents
            THEN IF all = None THEN [files |-> files, res |-> FsErr("io")]
                 ELSE MkdirPaths(Tail(paths), Unwrap(all), ctx, parents)
            ELSE IF Exists(files, p) \/ Place(files, p) = None
            THEN [files |-> files, res |-> FsErr("io")]
            ELSE MkdirPaths(Tail(paths),
                            Extend(files, [x \in {Unwrap(Place(files, p))} |-> "dir"]),
                            ctx, parents)

\* mkdir.rs lines 12-36
MkdirCommand(args, ctx, files) ==
    MkdirPaths(NotFlags(Tail(args)), files, ctx,
               \E i \in 2..Len(args) : args[i] = <<"-p">>)

\* fs::copy of the file at `from` to the path `to`
CopyFile(files, from, to) ==
    LET t == Target(files, to)
    IN IF t = None \/ IsDir(files, to) THEN None
       ELSE Some(Extend(files, [x \in {Unwrap(t)} |-> "file"]))

\* common.rs lines 14-33: the directory at `from` is copied entry by entry
\* under `to`, which is made first if it is not there. (A copy that meets an
\* entry of the other kind, or that goes into the directory copied, fails;
\* what it made before failing is left out.)
copy_dir_recursive(files, from, to) ==
    LET made == IF Exists(files, to) THEN Some(files) ELSE CreateAll(files, Root, Tail(to))
        inner == Subtree(files, from) \ {from}
    IN IF made = None THEN None
       ELSE LET base == Unwrap(made)
                at == Unwrap(canonicalize(base, to))
                copies == {Rebase(x, from, at) : x \in inner}
            IN IF inner = {} THEN Some(base)
               ELSE IF base[at] # "dir" \/ IsPrefix(from, at) THEN None
               ELSE IF \E x \in inner : Rebase(x, from, at) \in DOMAIN base
                                        /\ base[Rebase(x, from, at)] # files[x]
               THEN None
               ELSE Some(Extend(base, [y \in copies |->
                           files[CHOOSE x \in inner : Rebase(x, from, at) = y]]))

\* cp.rs lines 89-110: the sources in turn; dest_is_dir was read before.
RECURSIVE CpSources(_, _, _, _, _, _)
CpSources(sources, files, ctx, dest_path, dest_is_dir, recursive) ==
    IF sources = <<>> THEN [files |-> files, res |-> FsOk(0)]
    ELSE LET src_path == resolve_path(ctx, Head(sources))
             target == IF dest_is_dir THEN Append(dest_path, Last(src_path)) ELSE dest_path
             copied == IF IsDir(files, src_path)
                       THEN copy_dir_recursive(files, Unwrap(canonicalize(files, src_path)),
                                               target)
                       ELSE CopyFile(files, Unwrap(canonicalize(files, src_path)), target)
         IN IF ~Exists(files, src_path) \/ Last(src_path) = ".."
               \/ (IsDir(files, src_path) /\ ~recursive)
            THEN [files |-> files, res |-> FsErr("io")]
            ELSE IF copied = None THEN [files |-> files, res |-> FsErr("io")]
            ELSE CpSources(Tail(sources), Unwrap(copied), ctx, dest_path, dest_is_dir,
                           recursive)

RECURSIVE Without(_, _)
Without(args, dropped) ==
    IF args = <<>> THEN <<>>
    ELSE IF Head(args) \in dropped THEN Without(Tail(args), dropped)
    ELSE <<Head(args)>> \o Without(Tail(args), dropped)

\* cp.rs lines 12-64: no path is checked against allow_paths.
CpCommand(args, ctx, files) ==
    LET recursive == \E i \in 2..Len(args) : args[i] \in {<<"-r">>, <<"-R">>}
        paths == Without(Tail(args), {<<"-r">>, <<"-R">>})
        dest_path == resolve_path(ctx, Last(paths))
    IN IF Len(paths) < 2 THEN [files |-> files, res |-> FsErr("io")]
       ELSE IF Len(paths) > 2 /\ ~IsDir(files, dest_path)
       THEN [files |-> files, res |-> FsErr("io")]
       ELSE CpSources(Front(paths), files, ctx, dest_path, IsDir(files, dest_path),
                      recursive)

\* The cwd of the process, which `cd` never changes (cd.rs lines 24-26).
ProcessCwd == Root
\* Path::new(arg): a relative path is taken from the cwd of the process.
PathNew(arg) == IF arg # <<>> /\ Head(arg) = "/" THEN arg ELSE ProcessCwd \o arg

\* fs::rename of the entry at `from` to the path `to`
Rename(files, from, to) ==
    LET t == Target(files, to)
        moved == Subtree(files, from)
    IN IF t = None THEN None
       ELSE LET at == Unwrap(t)
            IN IF at = from THEN Some(files)
               ELSE IF at \in DOMAIN files
                       /\ (files[at] # files[from] \/ Subtree(files, at) # {at})
               THEN None
               ELSE IF IsPrefix(from, at) THEN None
               ELSE Some(Extend(Restrict(files, DOMAIN files \ moved),
                                [y \in {Rebase(x, from, at) : x \in moved} |->
                                    files[CHOOSE x \in moved : Rebase(x, from, at) = y]]))

\* mv.rs lines 33-46: the sources in turn.
RECURSIVE MvSources(_, _, _, _)
MvSources(sources, files, dest_path, dest_is_dir) ==
    IF sources = <<>> THEN [files |-> files, res |-> FsOk(0)]
    ELSE LET src_path == PathNew(Head(sources))
             target == IF dest_is_dir THEN Append(dest_path, Last(src_path)) ELSE dest_path
             renamed == Rename(files, Unwrap(canonicalize(files, src_path)), target)
         IN IF ~Exists(files, src_path) \/ Last(src_path) = ".."
            THEN [files |-> files, res |-> FsErr("io")]
            ELSE IF renamed = None THEN [files |-> files, res |-> FsErr("io")]
            ELSE MvSources(Tail(sources), Unwrap(renamed), dest_path, dest_is_dir)

\* mv.rs lines 12-49: every argument is a path, none is checked against
\* allow_paths and none is taken from the context's cwd.
MvCommand(args, ctx, files) ==
    LET dest_path == PathNew(Last(args))
        sources == SubSeq(args, 2, Len(args) - 1)
    IN IF Len(args) < 3 THEN [files |-> files, res |-> FsOk(1)]
       ELSE IF Len(sources) > 1 /\ ~IsDir(files, dest_path)
       THEN [files |-> files, res |-> FsErr("io")]
       ELSE MvSources(sources, files, dest_path, IsDir(files, dest_path))

\* ------------------------------------------------------------ builtins: one call
\* handlers/shell.rs lines 34-36: the context carries the capabilities of
\* the configuration.
Capabilities(allow_exec, allow_paths) ==
    Some([allow_exec |-> allow_exec, allow_paths |-> allow_paths])
GuardedContext(cwd, capabilities) ==
    [env |-> EmptyMap, cwd |-> cwd, exit_code |-> 0, capabilities |-> capabilities]

Zone == <<"/", "p">>
Tree ==
    [x \in {Root, Zone, <<"/", "p", "a">>, <<"/", "p", "d">>, <<"/", "p", "d", "c">>,
            <<"/", "q">>, <<"/", "q", "b">>} |->
        IF x \in {<<"/", "p", "a">>, <<"/", "p", "d", "c">>, <<"/", "q", "b">>}
        THEN "file" ELSE "dir"]
PathArgs ==
    {<<"/", "p", "a">>, <<"/", "q", "b">>, <<"/", "q", "n">>, <<"/", "p", "n">>,
     <<"/", "p", "..", "q", "b">>, <<"a">>, <<"/", "q">>, <<"/", "p", "d">>,
     <<"/", "q", "n", "m">>}
OneOrTwo == {<<x>> : x \in PathArgs} \cup {<<x, y>> : x, y \in PathArgs}
Calls ==
    {<<<<"rm">>>> \o f \o t : f \in {<<>>, <<<<"-r">>>>, <<<<"-f">>>>}, t \in OneOrTwo}
    \cup {<<<<"mkdir">>>> \o f \o t : f \in {<<>>, <<<<"-p">>>>}, t \in OneOrTwo}
    \cup {<<<<"cp">>>> \o f \o <<x, y>> : f \in {<<>>, <<<<"-r">>>>}, x, y \in PathArgs}
    \cup {<<<<"mv">>, x, y>> : x, y \in PathArgs}
    \cup {<<<<"sys">>>>, <<<<"other">>>>}
CapabilitySets ==
    {None,
     Capabilities(None, Some(<<Zone>>)),
     Capabilities(Some(<<>>), None),
     Capabilities(Some(<<<<"sys">>>>), None)}

FsCalled(name) == fs.pc = "call" /\ fs.args[1] = <<name>>
FsUnchanged ==
    UNCHANGED <<cfg, threads, halted, executed, raised, saved, c_in, c_out, ld, sh,
                lg, xc, rs, sq, project>>
FsReturn(out, spawned) ==
    fs' = [fs EXCEPT !.pc = "done", !.files = out.files, !.res = out.res,
                     !.spawned = spawned]

FsRm == FsCalled("rm") /\ FsReturn(RmCommand(fs.args, fs.ctx, fs.files), FALSE) /\ FsUnchanged
FsMkdir ==
    FsCalled("mkdir") /\ FsReturn(MkdirCommand(fs.args, fs.ctx, fs.files), FALSE) /\ FsUnchanged
FsCp == FsCalled("cp") /\ FsReturn(CpCommand(fs.args, fs.ctx, fs.files), FALSE) /\ FsUnchanged
FsMv == FsCalled("mv") /\ FsReturn(MvCommand(fs.args, fs.ctx, fs.files), FALSE) /\ FsUnchanged

\* executor.rs lines 72-78 and system.rs lines 12-56: a name the registry
\* does not hold is spawned as a program.
FsSystem ==
    /\ fs.pc = "call"
    /\ fs.args[1] \notin {<<"rm">>, <<"mkdir">>, <<"cp">>, <<"mv">>}
    /\ \E o \in SystemCommand(fs.args, fs.ctx) :
          FsReturn([files |-> fs.files,
                    res |-> IF o.res.k = "ok" THEN FsOk(o.res.code) ELSE FsErr("io")],
                   o.res.k = "ok")
    /\ FsUnchanged

InitFs ==
    /\ cfg = Manifest(DefaultTask, DefaultTask, DefaultTask)
    /\ threads = [T \in {} |-> <<>>]
    /\ halted = "no"
    /\ executed = {}
    /\ raised = {}
    /\ saved = {}
    /\ c_in = <<>>
    /\ c_out = "none"
    /\ project = NoProject
    /\ ld = Idle /\ sh = Idle /\ lg = Idle /\ xc = Idle /\ rs = Idle /\ sq = Idle
    /\ \E args \in Calls, cwd \in {Root, Zone}, caps \in CapabilitySets :
          fs = [pc |-> "call", args |-> args, ctx |-> GuardedContext(cwd, caps),
                was |-> Tree, files |-> Tree, res |-> FsErr("none"), spawned |-> FALSE]

NextFs == FsRm \/ FsMkdir \/ FsCp \/ FsMv \/ FsSystem

SpecFs == InitFs /\ [][NextFs]_vars

\* ------------------------------------------------------------ logger.rs
\* A key is its sequence of characters. The characters used, in byte order.
Alphabet ==
    <<"A", "B", "D", "E", "H", "I", "K", "L", "N", "O", "P", "R", "S", "T", "U", "Y", "_",
      "a", "e", "k", "n", "o", "s", "t", "y">>
ByteOf(c) == CHOOSE i \in 1..Len(Alphabet) : Alphabet[i] = c

\* str::to_uppercase, character by character
UpperChar(c) ==
    CASE c = "a" -> "A" [] c = "e" -> "E" [] c = "k" -> "K" [] c = "n" -> "N"
      [] c = "o" -> "O" [] c = "s" -> "S" [] c = "t" -> "T" [] c = "y" -> "Y"
      [] OTHER -> c
to_uppercase(k) == [i \in 1..Len(k) |-> UpperChar(k[i])]

\* str::contains
Contains(hay, needle) ==
    \E i \in 0..(Len(hay) - Len(needle)) : SubSeq(hay, i + 1, i + Len(needle)) = needle

\* Ord for String: byte by byte
RECURSIVE KeyLess(_, _)
KeyLess(a, b) ==
    IF a = <<>> THEN b # <<>>
    ELSE IF b = <<>> THEN FALSE
    ELSE IF Head(a) # Head(b) THEN ByteOf(Head(a)) < ByteOf(Head(b))
    ELSE KeyLess(Tail(a), Tail(b))

RECURSIVE InsertKey(_, _)
InsertKey(x, s) ==
    IF s = <<>> THEN <<x>>
    ELSE IF KeyLess(x, Head(s)) THEN <<x>> \o s
    ELSE <<Head(s)>> \o InsertKey(x, Tail(s))

\* lines 75-76: sorted_keys.sort(), of the keys in the order the map gave
RECURSIVE SortKeys(_)
SortKeys(s) == IF s = <<>> THEN <<>> ELSE InsertKey(Head(s), SortKeys(Tail(s)))

\* line 81: the default keywords
Sensitive(k) ==
    LET k_upper == to_uppercase(k)
    IN \/ Contains(k_upper, <<"K", "E", "Y">>)
       \/ Contains(k_upper, <<"T", "O", "K", "E", "N">>)
       \/ Contains(k_upper, <<"P", "A", "S", "S">>)
       \/ Contains(k_upper, <<"S", "E", "C", "R", "E", "T">>)

\* lines 78-86: one line of the snapshot, "{} = {}\n"
SnapshotLine(k, v) ==
    k \o <<" = ">> \o (IF Sensitive(k) THEN <<"[REDACTED]">> ELSE v) \o <<"\n">>

\* lines 26-44: whether a log is written at all
Logged(strategy, exit_code) ==
    strategy = "always" \/ (strategy = "error_only" /\ exit_code # 0)

LgUnchanged ==
    UNCHANGED <<cfg, threads, halted, executed, raised, saved, c_in, c_out, ld, sh,
                fs, xc, rs, sq, project>>

\* lines 16-110: write_log; the snapshot is the part of the file between
\* its header and its body.
WriteLog ==
    /\ lg.pc = "call"
    /\ \E order \in Globbed(DOMAIN lg.env_vars) :
          LET keys == SortKeys(order)
          IN lg' = [lg EXCEPT
                    !.pc = "done",
                    !.written = Logged(lg.strategy, lg.exit_code),
                    !.snapshot = IF Logged(lg.strategy, lg.exit_code)
                                 THEN [i \in 1..Len(keys) |->
                                          SnapshotLine(keys[i], lg.env_vars[keys[i]])]
                                 ELSE <<>>]
    /\ LgUnchanged

\* The environments logged: up to MaxEnv of these keys, each with a value
\* of its own; the secret patterns of the manifest (config.rs lines 52, 62).
MaxEnv == 3
EnvKeys ==
    {<<"P", "A", "T", "H">>, <<"A", "P", "I", "_", "K", "E", "Y">>,
     <<"t", "o", "k", "e", "n">>, <<"D", "B", "_", "U", "R", "L">>,
     <<"D", "B">>, <<"H", "O", "S", "T">>}
ValueOf(k) == <<"value of ">> \o k
PatternSets == {<<>>, <<<<"D", "B", "_">>>>}

InitLog ==
    /\ cfg = Manifest(DefaultTask, DefaultTask, DefaultTask)
    /\ threads = [T \in {} |-> <<>>]
    /\ halted = "no"
    /\ executed = {}
    /\ raised = {}
    /\ saved = {}
    /\ c_in = <<>>
    /\ c_out = "none"
    /\ project = NoProject
    /\ ld = Idle /\ sh = Idle /\ fs = Idle /\ xc = Idle /\ rs = Idle /\ sq = Idle
    /\ \E K \in {S \in SUBSET EnvKeys : Cardinality(S) <= MaxEnv},
          strategy \in {"none", "error_only", "always"},
          exit_code \in {0, 1},
          patterns \in PatternSets :
          lg = [pc |-> "call", env_vars |-> [k \in K |-> ValueOf(k)],
                strategy |-> strategy, exit_code |-> exit_code,
                secret_patterns |-> patterns, written |-> FALSE, snapshot |-> <<>>]

NextLog == WriteLog

SpecLog == InitLog /\ [][NextLog]_vars

\* ------------------------------------------------------------ utils.rs: expand_command
\* A string is its sequence of characters.
\* str::replace: every occurrence of pat, left to right, none overlapping
RECURSIVE ReplaceAll(_, _, _)
ReplaceAll(s, pat, rep) ==
    IF Len(s) < Len(pat) THEN s
    ELSE IF SubSeq(s, 1, Len(pat)) = pat
    THEN rep \o ReplaceAll(SubSeq(s, Len(pat) + 1, Len(s)), pat, rep)
    ELSE <<Head(s)>> \o ReplaceAll(Tail(s), pat, rep)

\* args.join(" ")
RECURSIVE JoinArgs(_)
JoinArgs(args) ==
    IF args = <<>> THEN <<>>
    ELSE IF Len(args) = 1 THEN args[1]
    ELSE args[1] \o <<" ">> \o JoinArgs(Tail(args))

\* lines 37-43: $1, $2, ... in turn, each in the text the one before left
RECURSIVE Positional(_, _, _, _)
Positional(expanded, replaced_args, args, i) ==
    IF i > Len(args) THEN [expanded |-> expanded, replaced_args |-> replaced_args]
    ELSE LET placeholder == <<"$", ToString(i)>>
         IN IF Contains(expanded, placeholder)
            THEN Positional(ReplaceAll(expanded, placeholder, args[i]), TRUE, args, i + 1)
            ELSE Positional(expanded, replaced_args, args, i + 1)

\* A template that is never given its arguments at the end.
Appends_Never(replaced_args, args) == FALSE

\* lines 36 and 46: the arguments are added at the end
Appends(replaced_args, args) == args # <<>> /\ ~replaced_args

\* lines 24-50: the command before its variables are interpolated
ExpandArgs(cmd_template, args) ==
    LET splat == Contains(cmd_template, <<"$", "@">>)
        first == IF splat THEN ReplaceAll(cmd_template, <<"$", "@">>, JoinArgs(args))
                 ELSE cmd_template
        second == Positional(first, splat, args, 1)
    IN IF Appends(second.replaced_args, args)
       THEN second.expanded \o <<" ">> \o JoinArgs(args)
       ELSE second.expanded

\* line 53: [a-zA-Z_] and [a-zA-Z0-9_]
NameStart(c) == c \in {"a", "b", "e", "V", "_"}
NameChar(c) == NameStart(c) \/ c \in {"1", "2"}
RECURSIVE NameRun(_)
NameRun(s) == IF s = <<>> \/ ~NameChar(Head(s)) THEN 0 ELSE 1 + NameRun(Tail(s))

\* lines 53-61: ${VAR} and $VAR are replaced when VAR is set, kept when not
RECURSIVE Interpolate(_, _)
Interpolate(s, env_vars) ==
    IF s = <<>> THEN <<>>
    ELSE LET n == IF Len(s) >= 3 /\ s[2] = "{" THEN NameRun(SubSeq(s, 3, Len(s)))
                  ELSE NameRun(Tail(s))
             braced == /\ Head(s) = "$" /\ Len(s) >= 4 /\ s[2] = "{" /\ NameStart(s[3])
                       /\ Len(s) >= n + 3 /\ s[n + 3] = "}"
             plain == Head(s) = "$" /\ Len(s) >= 2 /\ NameStart(s[2])
             key == IF braced THEN SubSeq(s, 3, n + 2) ELSE SubSeq(s, 2, n + 1)
             matched == IF braced THEN n + 3 ELSE n + 1
         IN IF braced \/ plain
            THEN (IF key \in DOMAIN env_vars THEN env_vars[key] ELSE SubSeq(s, 1, matched))
                 \o Interpolate(SubSeq(s, matched + 1, Len(s)), env_vars)
            ELSE <<Head(s)>> \o Interpolate(Tail(s), env_vars)

\* lines 24-64
expand_command(cmd_template, args, env_vars) ==
    Interpolate(ExpandArgs(cmd_template, args), env_vars)

XcUnchanged ==
    UNCHANGED <<cfg, threads, halted, executed, raised, saved, c_in, c_out, ld, sh,
                fs, lg, rs, sq, project>>

Expand ==
    /\ xc.pc = "call"
    /\ xc' = [xc EXCEPT !.pc = "done",
                        !.positional = ExpandArgs(xc.cmd_template, xc.args),
                        !.expanded = expand_command(xc.cmd_template, xc.args, xc.env_vars)]
    /\ XcUnchanged

MaxArgs == 2
Templates ==
    {<<"e">>, <<>>, <<"e", " ", "$", "@">>, <<"$", "@", " ", "$", "@">>,
     <<"e", " ", "$", "@", " ", "b">>, <<"e", " ", "$", "1">>, <<"e", " ", "$", "2">>,
     <<"e", " ", "$", "V">>, <<"e", " ", "$", "{", "V", "}", " ", "$", "@">>,
     <<"e", " ", "$", "@", " ", "$", "1">>, <<"e", "$">>, <<"$", "{", "V">>}
ArgValues == {<<"a">>, <<"b">>, <<"$", "2">>, <<"$", "V">>, <<"$", "@">>}
ArgLists == UNION {[1..n -> ArgValues] : n \in 0..MaxArgs}
Environments == {EmptyMap, [k \in {<<"V">>} |-> <<"a", "b">>]}

InitExpand ==
    /\ cfg = Manifest(DefaultTask, DefaultTask, DefaultTask)
    /\ threads = [T \in {} |-> <<>>]
    /\ halted = "no"
    /\ executed = {}
    /\ raised = {}
    /\ saved = {}
    /\ c_in = <<>>
    /\ c_out = "none"
    /\ project = NoProject
    /\ ld = Idle /\ sh = Idle /\ fs = Idle /\ lg = Idle /\ rs = Idle /\ sq = Idle
    /\ \E t \in Templates, a \in ArgLists, e \in Environments :
          xc = [pc |-> "call", cmd_template |-> t, args |-> a, env_vars |-> e,
                positional |-> <<>>, expanded |-> <<>>]

NextExpand == Expand

SpecExpand == InitExpand /\ [][NextExpand]_vars


\* ------------------------------------------------------------ utils.rs: readers
\* run_shell_command with its child and its reader threads. rs.todo are the
\* lines the child has yet to write on each stream, rs.pipe the lines written
\* and not yet read, rs.wrote every line written so far.
Streams == {"stdout", "stderr"}
RsUnchanged ==
    UNCHANGED <<cfg, threads, halted, executed, raised, saved, c_in, c_out, ld, sh,
                fs, lg, xc, sq, project>>
RsErr(why) == [k |-> "err", why |-> why, code |-> 0, log |-> <<>>]
RsOk(code, log) == [k |-> "ok", why |-> "none", code |-> code, log |-> log]

\* lines 85-138: the child is spawned, with pipes and a reader thread per
\* stream unless the mode is Inherit; a failure to spawn is returned.
RsSpawn ==
    /\ rs.pc = "call"
    /\ \/ rs' = [rs EXCEPT !.pc = "returned", !.res = RsErr("spawn")]
       \/ rs' = [rs EXCEPT !.pc = "wait", !.child = "running",
                           !.readers = [x \in Streams |->
                               IF rs.mode # "Inherit" THEN "running" ELSE "none"]]
    /\ RsUnchanged

\* The child writes its next line on a stream.
RsWrite(x) ==
    /\ rs.pc # "off" /\ rs.child = "running" /\ rs.todo[x] # <<>>
    /\ rs' = [rs EXCEPT !.todo[x] = Tail(@),
                        !.pipe[x] = IF rs.mode = "Inherit" THEN @
                                    ELSE Append(@, Head(rs.todo[x])),
                        !.wrote = @ \cup {Head(rs.todo[x])}]
    /\ RsUnchanged

\* The child ends by itself once it has written its lines.
RsExit ==
    /\ rs.pc # "off" /\ rs.child = "running"
    /\ \A x \in Streams : rs.todo[x] = <<>>
    /\ \E code \in {0, 1} : rs' = [rs EXCEPT !.child = "exited", !.code = code]
    /\ RsUnchanged

\* lines 109-127, 133-151: a reader takes a line from its pipe into the
\* merged log.
RsRead(x) ==
    /\ rs.pc # "off" /\ rs.readers[x] = "running" /\ rs.pipe[x] # <<>>
    /\ rs' = [rs EXCEPT !.pipe[x] = Tail(@),
                        !.captured_log = Append(@, Head(rs.pipe[x]))]
    /\ RsUnchanged

\* The pipe is empty and its write end closed: the reader's loop ends.
RsEof(x) ==
    /\ rs.pc # "off" /\ rs.readers[x] = "running" /\ rs.pipe[x] = <<>>
    /\ rs.child \in {"exited", "killed"}
    /\ rs' = [rs EXCEPT !.readers[x] = "done"]
    /\ RsUnchanged

\* lines 156-165: wait_timeout or wait returns the status of the child that
\* ended, or fails and the error is returned with `?`.
RsWait ==
    /\ rs.pc = "wait"
    /\ \/ /\ rs.child = "exited"
          /\ rs' = [rs EXCEPT !.pc = "join"]
       \/ rs' = [rs EXCEPT !.pc = "returned", !.res = RsErr("wait")]
    /\ RsUnchanged

\* lines 158-161: the time is up with the child still running: it is killed.
RsTimeout ==
    /\ rs.pc = "wait" /\ rs.timeout /\ rs.child = "running"
    /\ rs' = [rs EXCEPT !.pc = "reap", !.child = "killed"]
    /\ RsUnchanged

\* lines 161-162: the killed child is waited for, and the timeout is
\* returned as an error.
RsReap ==
    /\ rs.pc = "reap"
    /\ \/ rs' = [rs EXCEPT !.pc = "returned", !.res = RsErr("timeout")]
       \/ rs' = [rs EXCEPT !.pc = "returned", !.res = RsErr("wait")]
    /\ RsUnchanged

\* lines 168-171: `for t in threads { let _ = t.join(); }`
RsJoin(x) ==
    /\ rs.pc = "join" /\ rs.readers[x] = "done" /\ x \notin rs.joined
    /\ x = "stderr" => "stdout" \in rs.joined
    /\ rs' = [rs EXCEPT !.joined = @ \cup {x}]
    /\ RsUnchanged

\* lines 173-209: the threads are joined: (code, final_log) is returned.
RsReturn ==
    /\ rs.pc = "join"
    /\ \A x \in Streams : rs.readers[x] # "none" => x \in rs.joined
    /\ rs' = [rs EXCEPT !.pc = "returned",
                        !.res = RsOk(rs.code, IF rs.mode # "Inherit"
                                               THEN rs.captured_log ELSE <<>>)]
    /\ RsUnchanged

\* The lines a child writes: at most MaxLines on each stream.
MaxLines == 2
LinesOf(x, n) == [k \in 1..n |-> <<x, k>>]
CaptureModes == {"Inherit", "Buffer", "Tee"}

InitReaders ==
    /\ cfg = Manifest(DefaultTask, DefaultTask, DefaultTask)
    /\ threads = [T \in {} |-> <<>>]
    /\ halted = "no"
    /\ executed = {}
    /\ raised = {}
    /\ saved = {}
    /\ c_in = <<>>
    /\ c_out = "none"
    /\ project = NoProject
    /\ ld = Idle /\ sh = Idle /\ fs = Idle /\ lg = Idle /\ xc = Idle /\ sq = Idle
    /\ \E mode \in CaptureModes, timeout \in BOOLEAN,
          no \in 0..MaxLines, ne \in 0..MaxLines :
          rs = [pc |-> "call", mode |-> mode, timeout |-> timeout,
                child |-> "none", code |-> 0,
                todo |-> [x \in Streams |-> IF x = "stdout" THEN LinesOf(x, no)
                                            ELSE LinesOf(x, ne)],
                pipe |-> [x \in Streams |-> <<>>], wrote |-> {},
                readers |-> [x \in Streams |-> "none"], joined |-> {},
                captured_log |-> <<>>, res |-> RsErr("none")]

NextReaders ==
    \/ RsSpawn
    \/ \E x \in Streams : RsWrite(x)
    \/ RsExit
    \/ \E x \in Streams : RsRead(x)
    \/ \E x \in Streams : RsEof(x)
    \/ RsWait
    \/ RsTimeout
    \/ RsReap
    \/ \E x \in Streams : RsJoin(x)
    \/ RsReturn

SpecReaders == InitReaders /\ [][NextReaders]_vars


\* ------------------------------------------------------------ executor.rs: sequences
\* handle_sequence with the two sides it runs and, when it was given a stdout,
\* the bridge thread that copies the pipe to it. sq.todo are the bytes a side
\* has yet to write, sq.pipe the bytes in the bridge pipe, sq.open the write
\* ends not yet dropped, sq.sink what the outer stdout has received.
Sides == {"left", "right"}
SqUnchanged ==
    UNCHANGED <<cfg, threads, halted, executed, raised, saved, c_in, c_out, ld, sh,
                fs, lg, xc, rs, project>>
SqReturned(q, r) == [q EXCEPT !.pc = "returned", !.res = r, !.open = {}]

\* lines 248-255 and 277: with a stdout the pipe is made, the bridge thread
\* started and the writer cloned, each of which can fail; without one the
\* left side starts at once.
SqEnter ==
    /\ sq.pc = "call"
    /\ IF sq.stdout
       THEN \/ sq' = SqReturned(sq, Err)
            \/ sq' = SqReturned([sq EXCEPT !.bridge = "running"], Err)
            \/ sq' = [sq EXCEPT !.pc = "left", !.bridge = "running",
                                !.open = {"w1", "w2"}]
       ELSE sq' = [sq EXCEPT !.pc = "left"]
    /\ SqUnchanged

\* The side that is running writes its next byte to the stdout it was given:
\* the pipe, or the process's own stdout.
SqWrite ==
    /\ sq.pc \in Sides /\ sq.todo[sq.pc] # <<>>
    /\ LET b == Head(sq.todo[sq.pc])
       IN sq' = [sq EXCEPT !.todo[sq.pc] = Tail(@),
                           !.wrote = Append(@, b),
                           !.pipe = IF sq.stdout THEN Append(@, b) ELSE @,
                           !.sink = IF sq.stdout THEN @ ELSE Append(@, b)]
    /\ SqUnchanged

\* lines 257-273 and 277-290: the left side returns: its error is returned
\* with `?`, else the right side (always present, lines 136-142) starts or
\* is skipped (and w2 dropped).
SqLeft ==
    /\ sq.pc = "left"
    /\ \E r \in {Ok(0), Ok(1), Err} :
          /\ r.k = "ok" => sq.todo["left"] = <<>>
          /\ sq' = IF r.k = "err" THEN SqReturned(sq, r)
                   ELSE IF Proceed(sq.mode, r.code)
                   THEN [sq EXCEPT !.pc = "right", !.open = @ \ {"w1"}, !.left_res = r]
                   ELSE IF sq.stdout
                   THEN [sq EXCEPT !.pc = "join", !.open = {}, !.res = r, !.left_res = r]
                   ELSE [SqReturned(sq, r) EXCEPT !.left_res = r]
    /\ SqUnchanged

\* lines 265-267 and 284-285: the right side returns, its error with `?`.
SqRight ==
    /\ sq.pc = "right"
    /\ \E r \in {Ok(0), Ok(1), Err} :
          /\ r.k = "ok" => sq.todo["right"] = <<>>
          /\ sq' = IF r.k = "err" \/ ~sq.stdout THEN SqReturned(sq, r)
                   ELSE [sq EXCEPT !.pc = "join", !.open = {}, !.res = r]
    /\ SqUnchanged

\* lines 251-253: std::io::copy moves a byte from the pipe to the sink.
SqCopy ==
    /\ sq.pc # "off" /\ sq.bridge = "running" /\ sq.pipe # <<>>
    /\ sq' = [sq EXCEPT !.pipe = Tail(@), !.sink = Append(@, Head(sq.pipe))]
    /\ SqUnchanged

\* The pipe is empty and every write end dropped: the copy ends.
SqEof ==
    /\ sq.pc # "off" /\ sq.bridge = "running" /\ sq.pipe = <<>> /\ sq.open = {}
    /\ sq.pc \in {"join", "returned"}
    /\ sq' = [sq EXCEPT !.bridge = "done"]
    /\ SqUnchanged

\* lines 274-275: bridge_thread.join().unwrap(); Ok(final_res)
SqJoin ==
    /\ sq.pc = "join" /\ sq.bridge = "done"
    /\ sq' = [sq EXCEPT !.pc = "returned"]
    /\ SqUnchanged

\* The bytes a side writes: at most MaxBytes.
MaxBytes == 2
BytesOf(x, n) == [k \in 1..n |-> <<x, k>>]
SequenceModes == {"and", "or", "seq"}

InitSequence ==
    /\ cfg = Manifest(DefaultTask, DefaultTask, DefaultTask)
    /\ threads = [T \in {} |-> <<>>]
    /\ halted = "no"
    /\ executed = {}
    /\ raised = {}
    /\ saved = {}
    /\ c_in = <<>>
    /\ c_out = "none"
    /\ project = NoProject
    /\ ld = Idle /\ sh = Idle /\ fs = Idle /\ lg = Idle /\ xc = Idle /\ rs = Idle
    /\ \E mode \in SequenceModes, stdout \in BOOLEAN,
          nl \in 0..MaxBytes, nr \in 0..MaxBytes :
          sq = [pc |-> "call", mode |-> mode, stdout |-> stdout,
                todo |-> [x \in Sides |-> IF x = "left" THEN BytesOf(x, nl)
                                          ELSE BytesOf(x, nr)],
                wrote |-> <<>>, pipe |-> <<>>, sink |-> <<>>, open |-> {},
                bridge |-> "none", left_res |-> NoRes, res |-> NoRes]

NextSequence ==
    \/ SqEnter
    \/ SqWrite
    \/ SqLeft
    \/ SqRight
    \/ SqCopy
    \/ SqEof
    \/ SqJoin

SpecSequence == InitSequence /\ [][NextSequence]_vars


\* ------------------------------------------------------------ config.rs: identity
\* The settings of an identity section ([project] or [module]), each absent
\* or present, and the two sections of a manifest, each absent or present.
SettingKeys == {"shell", "log_strategy", "log_plain"}
Section(present, v) == [k \in SettingKeys |-> IF k \in present THEN Some(v) ELSE None]
Identity(project_section, module_section) ==
    [project |-> project_section, module |-> module_section]

\* lines 93-106 (and 108-121): the settings of one section of the extension
\* replace those of the same section of the base, when the base has it.
merge_section(base_section, ext_section) ==
    IF IsSome(ext_section) /\ IsSome(base_section)
    THEN Some([k \in SettingKeys |->
                  IF IsSome(Unwrap(ext_section)[k]) THEN Unwrap(ext_section)[k]
                  ELSE Unwrap(base_section)[k]])
    ELSE base_section

\* lines 93-121: merge_configurations, the identity sections.
merge_settings(base, extension) ==
    Identity(merge_section(base.project, extension.project),
             merge_section(base.module, extension.module))

\* runner/mod.rs lines 189-195, config.rs lines 246-247: where the program
\* reads a setting of the assembled configuration.
Setting(config, k) ==
    IF IsSome(config.project) THEN Unwrap(config.project)[k]
    ELSE IF IsSome(config.module) THEN Unwrap(config.module)[k]
    ELSE None

\* config.rs lines 175-214: the next overlay, in sorted order, is merged.
MergeOverlay ==
    /\ ld.pc = "overlays" /\ ld.todo # <<>>
    /\ ld' = [ld EXCEPT !.config = merge_settings(@, Head(ld.todo)),
                        !.todo = Tail(@)]
    /\ LoadUnchanged

\* config.rs lines 216-219: a configuration with both sections is refused.
MergeValidate ==
    /\ ld.pc = "overlays" /\ ld.todo = <<>>
    /\ ld' = [ld EXCEPT !.pc = IF IsSome(ld.config.project) /\ IsSome(ld.config.module)
                               THEN "failed" ELSE "assembled"]
    /\ LoadUnchanged

\* The manifests tried: a base with neither section, with one, or with both,
\* and at most MaxOverlays overlays with one section each.
MaxOverlays == 2
BaseSections == {None, Some(Section({}, "base")), Some(Section(SettingKeys, "base"))}
OverlayName(i) == IF i = 1 THEN "p.1.toml" ELSE IF i = 2 THEN "p.2.toml" ELSE "p.3.toml"
Overlays(i) ==
    {Identity(Some(Section(K, OverlayName(i))), None) : K \in SUBSET SettingKeys}
    \cup {Identity(None, Some(Section(K, OverlayName(i)))) : K \in SUBSET SettingKeys}
OverlayLists ==
    UNION {{f \in [1..n -> UNION {Overlays(i) : i \in 1..n}] :
               \A i \in 1..n : f[i] \in Overlays(i)} : n \in 0..MaxOverlays}

InitMerge ==
    /\ cfg = Manifest(DefaultTask, DefaultTask, DefaultTask)
    /\ threads = [T \in {} |-> <<>>]
    /\ halted = "no"
    /\ executed = {}
    /\ raised = {}
    /\ saved = {}
    /\ c_in = <<>>
    /\ c_out = "none"
    /\ project = NoProject
    /\ sh = Idle
    /\ UnitsIdle
    /\ \E p \in BaseSections, m \in BaseSections, exts \in OverlayLists :
          ld = [pc |-> "overlays", base |-> Identity(p, m), config |-> Identity(p, m),
                overlays |-> exts, todo |-> exts]

NextMerge == MergeOverlay \/ MergeValidate

SpecMerge == InitMerge /\ [][NextMerge]_vars


\* ------------------------------------------------------------ parser.rs
\* A command line is a sequence of characters. A parser gives "ok" with the
\* rest of the input and what it built, "error" (the caller may try
\* something else) or "failure" (after `cut`: the whole parse fails).
POk(rem, expr) == [k |-> "ok", rem |-> rem, expr |-> expr]
PError(rem) == [k |-> "error", rem |-> rem, expr |-> <<>>]
PFailure(rem) == [k |-> "failure", rem |-> rem, expr |-> <<>>]
Drop(s, n) == SubSeq(s, n + 1, Len(s))
Tag(s, t) == IsPrefix(t, s)
RECURSIVE multispace0(_)
multispace0(s) == IF s # <<>> /\ Head(s) = " " THEN multispace0(Tail(s)) ELSE s
RECURSIVE Str(_)
Str(chars) == IF chars = <<>> THEN "" ELSE Head(chars) \o Str(Tail(chars))

Digits == {"0", "1", "2"}
DigitValue(c) == IF c = "0" THEN 0 ELSE IF c = "1" THEN 1 ELSE 2
RECURSIVE digit1(_)
digit1(s) == IF s # <<>> /\ Head(s) \in Digits THEN 1 + digit1(Tail(s)) ELSE 0
RECURSIVE Decimal(_)
Decimal(ds) == IF ds = <<>> THEN 0 ELSE 10 * Decimal(Front(ds)) + DigitValue(Last(ds))

\* lines 349-355
is_operator_char(c) == c \in {"|", "&", ">", "<", ";", "(", ")"}
is_quote(c) == c \in {"'", "\""}
RECURSIVE TextRun(_)
TextRun(s) ==
    IF s # <<>> /\ Head(s) # " " /\ ~is_quote(Head(s)) /\ Head(s) \notin {"$", "\\"}
                /\ ~is_operator_char(Head(s))
    THEN 1 + TextRun(Tail(s)) ELSE 0

\* lines 339-347: text up to a blank, a quote, `$`, `\` or an operator
\* character; digits followed by `>` or `<` start a redirection instead.
parse_unquoted_text_part(s) ==
    LET d == digit1(s)
        n == TextRun(s)
    IN IF d > 0 /\ d < Len(s) /\ s[d + 1] \in {">", "<"} THEN PError(s)
       ELSE IF n = 0 THEN PError(s)
       ELSE POk(Drop(s, n), Lit(Str(SubSeq(s, 1, n))))

\* lines 274-288: many1 of the parts of a token (the lines tried have no
\* quote, escape or variable).
RECURSIVE TokenParts(_)
TokenParts(s) ==
    LET part == parse_unquoted_text_part(s)
    IN IF part.k # "ok" THEN POk(s, <<>>)
       ELSE LET more == TokenParts(part.rem)
            IN POk(more.rem, <<part.expr>> \o more.expr)
parse_token(s) ==
    LET parts == TokenParts(s) IN IF parts.expr = <<>> THEN PError(s) ELSE parts

\* lines 270-272
is_keyword(w) == w \in {"if", "then", "else", "fi", "while", "do", "done"}

\* The value of F at v, v being evaluated once.
Bind(v, F(_)) == CHOOSE y \in {F(x) : x \in {v}} : TRUE

\* lines 226-244: many0(preceded(multispace1, parse_token))
RECURSIVE SimpleArgs(_)
SimpleArgs(s) ==
    Bind(IF s # <<>> /\ Head(s) = " " THEN parse_token(multispace0(s)) ELSE PError(s),
         LAMBDA arg :
            IF arg.k # "ok" THEN POk(s, <<>>)
            ELSE Bind(SimpleArgs(arg.rem),
                      LAMBDA more : POk(more.rem, <<arg.expr>> \o more.expr)))
parse_simple(s) ==
    Bind(parse_token(s), LAMBDA program :
        IF program.k # "ok" THEN program
        ELSE IF Len(program.expr) = 1 /\ is_keyword(program.expr[1].s)
        THEN PError(program.rem)
        ELSE Bind(SimpleArgs(program.rem),
                  LAMBDA args : POk(args.rem, Simple(program.expr, args.expr))))

\* lines 110-137, from the text: blanks, the digits of the descriptor, the
\* operator, and after `cut` its target.
parse_redirect_text(s) ==
    LET t == multispace0(s)
        d == digit1(t)
        fd == IF d = 0 THEN None ELSE Some(Decimal(SubSeq(t, 1, d)))
        u == Drop(t, d)
        operator == IF Tag(u, <<">", "&">>) THEN <<">", "&">>
                    ELSE IF Tag(u, <<">", ">">>) THEN <<">", ">">>
                    ELSE IF Tag(u, <<">">>) THEN <<">">>
                    ELSE IF Tag(u, <<"<">>) THEN <<"<">>
                    ELSE <<>>
        v == Drop(u, Len(operator))
    IN IF operator = <<>> THEN PError(s)
       ELSE IF operator = <<">", "&">>
       THEN IF digit1(v) = 0 THEN PFailure(v)
            ELSE POk(Drop(v, digit1(v)),
                     parse_redirect_entry(fd, ">&",
                                          Word(Str(SubSeq(v, 1, digit1(v))))))
       ELSE Bind(parse_token(multispace0(v)), LAMBDA target :
                IF target.k # "ok" THEN PFailure(v)
                ELSE POk(target.rem,
                         parse_redirect_entry(fd, Str(operator), target.expr)))

\* line 96: many0(parse_redirect_entry)
RECURSIVE RedirectEntries(_)
RedirectEntries(s) ==
    Bind(parse_redirect_text(s), LAMBDA e :
        IF e.k = "failure" THEN e
        ELSE IF e.k = "error" THEN POk(s, <<>>)
        ELSE Bind(RedirectEntries(e.rem), LAMBDA more :
                 IF more.k # "ok" THEN more
                 ELSE POk(more.rem, <<e.expr>> \o more.expr)))

RECURSIVE parse_sequence(_)
RECURSIVE parse_logic(_)
RECURSIVE parse_pipe(_)
RECURSIVE parse_redirects(_)
RECURSIVE parse_atomic(_)

\* lines 217-224
parse_subshell(s) ==
    IF s = <<>> \/ Head(s) # "(" THEN PError(s)
    ELSE Bind(parse_sequence(multispace0(Tail(s))), LAMBDA cmd :
             IF cmd.k # "ok" THEN cmd
             ELSE IF multispace0(cmd.rem) = <<>> \/ Head(multispace0(cmd.rem)) # ")"
             THEN PError(multispace0(cmd.rem))
             ELSE POk(Tail(multispace0(cmd.rem)), Subshell(cmd.expr)))

\* lines 140-147: `if` and `while` start with a keyword, which no line tried
\* here does; a subshell, else a simple command.
parse_atomic(s) ==
    Bind(parse_subshell(s), LAMBDA sub :
        IF sub.k # "error" THEN sub ELSE parse_simple(s))

\* lines 93-108: an atomic command and the redirections after it.
parse_redirects(s) ==
    Bind(parse_atomic(s), LAMBDA cmd :
        IF cmd.k # "ok" THEN cmd
        ELSE Bind(RedirectEntries(cmd.rem), LAMBDA redirects :
                 IF redirects.k # "ok" THEN redirects
                 ELSE POk(redirects.rem, parse_redirect(cmd.expr, redirects.expr))))

\* A pipeline folded to the right: a | (b | c).
RECURSIVE PipeFold_Right(_, _)
PipeFold_Right(acc, s) ==
    IF multispace0(s) = <<>> \/ Head(multispace0(s)) # "|" THEN POk(s, acc)
    ELSE Bind(parse_pipe(multispace0(Tail(multispace0(s)))), LAMBDA next :
             IF next.k = "failure" THEN next
             ELSE IF next.k = "error" THEN POk(s, acc)
             ELSE POk(next.rem, Pipe(acc, next.expr)))

\* lines 77-90: fold_many0 over `|` and the next command.
RECURSIVE PipeFold(_, _)
PipeFold(acc, s) ==
    IF multispace0(s) = <<>> \/ Head(multispace0(s)) # "|" THEN POk(s, acc)
    ELSE Bind(parse_redirects(multispace0(Tail(multispace0(s)))), LAMBDA next :
             IF next.k = "failure" THEN next
             ELSE IF next.k = "error" THEN POk(s, acc)
             ELSE PipeFold(Pipe(acc, next.expr), next.rem))

\* lines 74-91
parse_pipe(s) ==
    Bind(parse_redirects(s), LAMBDA init :
        IF init.k # "ok" THEN init ELSE PipeFold(init.expr, init.rem))

\* lines 57-70: fold_many0 over `&&` or `||` and the next pipeline.
RECURSIVE LogicFold(_, _)
LogicFold(acc, s) ==
    LET t == multispace0(s)
        op == IF Tag(t, <<"&", "&">>) THEN "&&"
              ELSE IF Tag(t, <<"|", "|">>) THEN "||" ELSE ""
    IN IF op = "" THEN POk(s, acc)
       ELSE Bind(parse_pipe(multispace0(Drop(t, 2))), LAMBDA next :
                IF next.k = "failure" THEN next
                ELSE IF next.k = "error" THEN POk(s, acc)
                ELSE LogicFold(IF op = "&&" THEN And(acc, next.expr)
                               ELSE Or(acc, next.expr),
                               next.rem))

\* lines 54-71
parse_logic(s) ==
    Bind(parse_pipe(s), LAMBDA init :
        IF init.k # "ok" THEN init ELSE LogicFold(init.expr, init.rem))

\* lines 34-37 and 46-50: separated_list0 over `;`, folded to the left.
RECURSIVE SequenceFold(_, _)
SequenceFold(acc, s) ==
    IF multispace0(s) = <<>> \/ Head(multispace0(s)) # ";" THEN POk(s, acc)
    ELSE Bind(parse_logic(multispace0(Tail(multispace0(s)))), LAMBDA next :
             IF next.k = "failure" THEN next
             ELSE IF next.k = "error" THEN POk(s, acc)
             ELSE SequenceFold(Sequence(acc, next.expr), next.rem))

\* lines 33-52
parse_sequence(s) ==
    Bind(parse_logic(s), LAMBDA first :
        IF first.k = "failure" THEN first
        ELSE IF first.k = "error" THEN PError(s)
        ELSE SequenceFold(first.expr, first.rem))

\* lines 18-30
parse_command_line(input) ==
    Bind(parse_sequence(input), LAMBDA r :
        IF r.k # "ok" THEN PError(r.rem)
        ELSE IF multispace0(r.rem) # <<>> THEN PError(multispace0(r.rem))
        ELSE r)

\* The shell parses the line it was given.
Parse ==
    /\ sh.pc = "parse"
    /\ sh' = [sh EXCEPT !.pc = "parsed", !.tree = parse_command_line(sh.input)]
    /\ ShUnchanged

\* The lines tried: up to MaxCommands commands, each a word with or without
\* a redirection to f, an operator between neighbours, written with or
\* without blanks around the operators.
MaxCommands == 3
CommandWords == <<"a", "b", "c", "d">>
Operators == {<<";">>, <<"&", "&">>, <<"|", "|">>, <<"|">>}
Shapes ==
    UNION {[ops : [1..(n - 1) -> Operators], redirected : SUBSET (1..n),
            spaced : BOOLEAN] : n \in 1..MaxCommands}
RECURSIVE Written(_, _)
Written(shape, i) ==
    LET n == Len(shape.ops) + 1
        blank == IF shape.spaced THEN <<" ">> ELSE <<>>
        cmd == <<CommandWords[i]>> \o
               (IF i \in shape.redirected THEN blank \o <<">">> \o blank \o <<"f">>
                ELSE <<>>)
    IN IF i = n THEN cmd
       ELSE cmd \o blank \o shape.ops[i] \o blank \o Written(shape, i + 1)

InitParse ==
    /\ cfg = Manifest(DefaultTask, DefaultTask, DefaultTask)
    /\ threads = [T \in {} |-> <<>>]
    /\ halted = "no"
    /\ executed = {}
    /\ raised = {}
    /\ saved = {}
    /\ c_in = <<>>
    /\ c_out = "none"
    /\ project = NoProject
    /\ ld = Idle
    /\ UnitsIdle
    /\ \E shape \in Shapes :
          sh = [pc |-> "parse", shape |-> shape, input |-> Written(shape, 1),
                tree |-> PError(<<>>)]

NextParse == Parse

SpecParse == InitParse /\ [][NextParse]_vars


\* ------------------------------------------------------------ the environment of a task
\* The environment a process is spawned with. sh.process_env is the
\* environment of p itself, sh.config_env the env of the assembled
\* configuration, sh.context the ShellContext recursive_runner was given (or
\* None), sh.spawned the processes started so far.
ProcessKeys == {"PATH", "A", "B"}

\* context.rs lines 15-26: ShellContext::new: env is std::env::vars().
ShellContext_new(process_env) == Context(process_env, <<>>)

\* handlers/task.rs lines 10-47: the configuration is loaded, the context is
\* made and the commands registered; recursive_runner is called with the
\* context. (recursive_runner takes an Option: a caller may pass None.)
EnvEntry ==
    /\ sh.pc = "entry"
    /\ sh' = [sh EXCEPT !.pc = "cmds",
                        !.context = IF sh.embedded
                                    THEN Some(ShellContext_new(sh.process_env))
                                    ELSE None]
    /\ ShUnchanged

\* system.rs lines 26-33: cmd.env_clear(); cmd.envs(&ctx.env)
SystemEnv(ctx, process_env) == ctx.env

\* utils.rs lines 80-84: Command::new(shell).envs(env_vars): the variables
\* are added to the environment inherited from p.
RunnerEnv(env_vars, process_env) == Extend(process_env, env_vars)

\* runner/mod.rs lines 235-262: with a context the line goes to the embedded
\* shell, which runs the program of a simple command as a system command.
EnvSystem ==
    /\ sh.pc = "cmds" /\ sh.todo # <<>> /\ Head(sh.todo) = "sys"
    /\ IsSome(sh.context)
    /\ sh' = [sh EXCEPT !.todo = Tail(@),
                        !.spawned = Append(@, [via |-> "system",
                            env |-> SystemEnv(Unwrap(sh.context), sh.process_env)])]
    /\ ShUnchanged

\* executor.rs lines 144-148: an assignment line changes the context.
EnvAssign ==
    /\ sh.pc = "cmds" /\ sh.todo # <<>> /\ Head(sh.todo) = "set"
    /\ IsSome(sh.context)
    /\ sh' = [sh EXCEPT !.todo = Tail(@),
                        !.context = Some([Unwrap(sh.context) EXCEPT
                                             !.env = Extend(@, [k \in {"B"} |-> "x"])])]
    /\ ShUnchanged

\* runner/mod.rs lines 295-322: without a context the line is run by the
\* system shell, given config.env.
EnvShell ==
    /\ sh.pc = "cmds" /\ sh.todo # <<>>
    /\ ~IsSome(sh.context)
    /\ sh' = [sh EXCEPT !.todo = Tail(@),
                        !.spawned = Append(@, [via |-> "shell",
                            env |-> RunnerEnv(sh.config_env, sh.process_env)])]
    /\ ShUnchanged

InitEnv ==
    /\ cfg = Manifest(DefaultTask, DefaultTask, DefaultTask)
    /\ threads = [T \in {} |-> <<>>]
    /\ halted = "no"
    /\ executed = {}
    /\ raised = {}
    /\ saved = {}
    /\ c_in = <<>>
    /\ c_out = "none"
    /\ project = NoProject
    /\ ld = Idle
    /\ UnitsIdle
    /\ \E process_env \in Maps(ProcessKeys \ {"B"}, {"p"}),
          config_env \in Maps(ProcessKeys \ {"PATH"}, {"c"}),
          embedded \in BOOLEAN, todo \in SeqsUpTo({"sys", "set"}, MaxCmds) :
          sh = [pc |-> "entry", process_env |-> process_env,
                config_env |-> config_env, embedded |-> embedded, todo |-> todo,
                context |-> None, spawned |-> <<>>]

NextEnv ==
    \/ EnvEntry
    \/ EnvSystem
    \/ EnvAssign
    \/ EnvShell

SpecEnv == InitEnv /\ [][NextEnv]_vars


\* ------------------------------------------------------------ fs/mod.rs: the check alone
\* check_path_access is asked about one target.
AccessCheck ==
    /\ fs.pc = "check"
    /\ fs' = [fs EXCEPT !.pc = "checked",
                        !.admitted = check_path_access(fs.target, fs.ctx, fs.files)]
    /\ FsUnchanged

\* The targets asked about: up to MaxPath names or `..`, from the root or
\* from the working directory.
MaxPath == 4
Components == {"p", "q", "n", "a", ".."}
Targets ==
    UNION {[1..n -> Components] : n \in 1..MaxPath}
    \cup {Root \o t : t \in UNION {[1..n -> Components] : n \in 1..MaxPath}}
AllowLists == {<<Zone>>, <<Zone, <<"/", "q", "n">>>>}

InitAccess ==
    /\ cfg = Manifest(DefaultTask, DefaultTask, DefaultTask)
    /\ threads = [T \in {} |-> <<>>]
    /\ halted = "no"
    /\ executed = {}
    /\ raised = {}
    /\ saved = {}
    /\ c_in = <<>>
    /\ c_out = "none"
    /\ project = NoProject
    /\ ld = Idle /\ sh = Idle /\ lg = Idle /\ xc = Idle /\ rs = Idle /\ sq = Idle
    /\ \E target \in Targets, cwd \in {Root, Zone}, allow_paths \in AllowLists :
          fs = [pc |-> "check", target |-> target, files |-> Tree,
                ctx |-> GuardedContext(cwd, Capabilities(None, Some(allow_paths))),
                admitted |-> FALSE]

NextAccess == AccessCheck

SpecAccess == InitAccess /\ [][NextAccess]_vars


\* ------------------------------------------------------------ executor.rs: redirections and the zone
\* An output redirection under a context with capabilities. No `cd` has run:
\* the working directory of the process is that of the context.
\* executor.rs lines 110-120: the target is expanded and opened with
\* OpenOptions: write, create, and truncate or append. fs.touched are the
\* files created, truncated or opened for appending.
RedirectOpen ==
    /\ fs.pc = "redirect"
    /\ LET p == resolve_path(fs.ctx, fs.target)
           at == Target(fs.files, p)
       IN IF at = None \/ (Unwrap(at) \in DOMAIN fs.files /\ fs.files[Unwrap(at)] = "dir")
          THEN fs' = [fs EXCEPT !.pc = "returned", !.res = FsErr("io")]
          ELSE fs' = [fs EXCEPT !.pc = "opened",
                                !.files = Extend(@, [x \in {Unwrap(at)} |-> "file"]),
                                !.touched = @ \cup {Unwrap(at)}]
    /\ FsUnchanged

\* executor.rs lines 122-132: the command runs with the file as its stdout,
\* or as its stderr when the descriptor is 2.
RedirectRun ==
    /\ fs.pc = "opened"
    /\ \E code \in {0, 1} : fs' = [fs EXCEPT !.pc = "returned", !.res = FsOk(code)]
    /\ FsUnchanged

RedirectModes == {"overwrite", "append"}

InitRedirect ==
    /\ cfg = Manifest(DefaultTask, DefaultTask, DefaultTask)
    /\ threads = [T \in {} |-> <<>>]
    /\ halted = "no"
    /\ executed = {}
    /\ raised = {}
    /\ saved = {}
    /\ c_in = <<>>
    /\ c_out = "none"
    /\ project = NoProject
    /\ ld = Idle /\ sh = Idle /\ lg = Idle /\ xc = Idle /\ rs = Idle /\ sq = Idle
    /\ \E target \in PathArgs, mode \in RedirectModes, source_fd \in {1, 2},
          cwd \in {Root, Zone}, allow_paths \in AllowLists :
          fs = [pc |-> "redirect", target |-> target, mode |-> mode,
                source_fd |-> source_fd, files |-> Tree,
                ctx |-> GuardedContext(cwd, Capabilities(None, Some(allow_paths))),
                touched |-> {}, res |-> FsErr("none")]

NextRedirect == RedirectOpen \/ RedirectRun

SpecRedirect == InitRedirect /\ [][NextRedirect]_vars

\* ------------------------------------------------------------ reading a state
\* The activations alive in a state, by thread and position.
FramePos == UNION {{<<T, n>> : n \in 1..Len(threads[T].frames)} : T \in DOMAIN threads}
FrameAt(p) == threads[p[1]].frames[p[2]]
IsTop(p) == p[2] = Len(threads[p[1]].frames)
Frames == {FrameAt(p) : p \in FramePos}

Done == threads[Main].res # "none"
Result == threads[Main].res

DepsOf(t) == Range(cfg[t].deps)
RECURSIVE ReachN(_, _)
ReachN(S, n) ==
    IF n = 0 THEN S ELSE ReachN(S \cup UNION {DepsOf(t) : t \in S}, n - 1)
\* The tasks reached from t over deps edges: t included, and over one edge at least.
Reachable(t) == ReachN({t}, Cardinality(Tasks))
Below(t) == ReachN(DepsOf(t), Cardinality(Tasks))
OnCycle == {t \in Tasks : t \in Below(t)}
CycleTasks == OnCycle \cap Reachable(EntryTask)
AcyclicDeps == OnCycle = {}
\* No command line of the manifest names a task.
NoTaskCommands == \A t \in Tasks : Range(EffCmds(cfg[t])) \cap Tasks = {}

Count(s, x) == Cardinality({k \in 1..Len(s) : s[k] = x})
Upto(n) == [k \in 1..n |-> k]
CmdErrors == {"cmd", "exec"}

\* ------------------------------------------------------------ C1
\* C1 as stated: whenever a dependency cycle is reachable from the entry
\* task, the run fails with the cycle error (handed up as it is, or reported
\* and wrapped by a parallel batch), and no command of a task on the cycle is
\* ever executed.
C1_FailsWithCycleError ==
    CycleTasks # {} =>
        /\ executed \cap CycleTasks = {}
        /\ Done => /\ Result \in {"cycle", "deps"}
                   /\ "cycle" \in raised

\* C1 amended: whenever a dependency cycle is reachable from the entry task,
\* the run never returns success and no command of a task on the cycle is
\* ever executed; the run fails with the cycle error unless a command, an OS
\* selection or a freshness check failed first; it does not recurse without
\* end when no command names a task; and for a.deps=[b], b.deps=[a] nothing
\* at all is executed and the error is the cycle error.
C1_CycleNeverRuns ==
    CycleTasks # {} =>
        /\ Result # "ok"
        /\ executed \cap CycleTasks = {}
        /\ (Done /\ raised \cap (CmdErrors \cup {"os", "fresh"}) = {}) =>
              /\ Result \in {"cycle", "deps"}
              /\ "cycle" \in raised
        /\ NoTaskCommands => halted # "overflow"
        /\ (cfg["a"].deps = <<"b">> /\ cfg["b"].deps = <<"a">>) =>
              /\ executed = {}
              /\ Done => /\ "cycle" \in raised
                         /\ Result = IF cfg["a"].parallel \/ cfg["b"].parallel
                                      THEN "deps" ELSE "cycle"

C1_Witness ==
    /\ cfg["a"].deps = <<"b">> /\ cfg["b"].deps = <<"a">>
    /\ Done /\ Result = "cycle" /\ executed = {}

\* ------------------------------------------------------------ C2
\* C2: with acyclic deps edges the run terminates, also when command lines
\* name tasks: the nesting of recursive_runner activations stays bounded, so
\* the process never dies of stack exhaustion.
C2_Terminates == AcyclicDeps => halted # "overflow"

\* ------------------------------------------------------------ C3
\* C3: a task starts a command only when every one of its dependencies has
\* returned Ok; once a dependency has failed (and, in a parallel batch, all
\* have returned), the task has run no command and returns an error.
C3_DepsBeforeCommands ==
    \A p \in FramePos :
        LET f == FrameAt(p)
            all == 1..Len(cfg[f.task].deps)
        IN /\ (f.pc \in {"fresh", "cmds", "running"} \/ f.log # <<>>) => f.depok = all
           /\ (IsTop(p) /\ f.pc # "join" /\ ~(Range(f.started) \subseteq f.depok)) =>
                 /\ f.pc = "ret" /\ f.res \notin {"ok", "none"}
                 /\ f.log = <<>>
           /\ (f.pc = "ret" /\ f.res = "ok") => f.depok = all

C3_Witness ==
    \E p \in FramePos :
        /\ FrameAt(p).pc = "running"
        /\ cfg[FrameAt(p).task].parallel
        /\ FrameAt(p).depok = {1, 2}

\* ------------------------------------------------------------ C5
\* C5: a command whose failure is final (ignored or propagated) has been
\* attempted retry + 1 times.
C5_RetryAttempts ==
    \A f \in Frames : \A j \in f.failed :
        Count(f.log, j) = cfg[f.task].retry + 1

GateSkips(t) ==
    \/ IsSome(t.skip_if) /\ Unwrap(t.skip_if) = 0
    \/ IsSome(t.run_if) /\ Unwrap(t.run_if) # 0

C7_GatesSkip ==
    \A f \in Frames : GateSkips(cfg[f.task]) => f.log = <<>>

\* ------------------------------------------------------------ C8
\* C8: no command runs longer than the timeout of its task.
C8_TimeoutBounds ==
    \A f \in Frames :
        (f.pc = "running" /\ IsSome(timeout_duration(cfg[f.task]))) =>
            f.el <= Unwrap(timeout_duration(cfg[f.task]))

\* ------------------------------------------------------------ C9
\* C9: within one activation the commands are started in declaration order,
\* each once and only after the one before it has finished; without
\* ignore_failure a failed command is the last one started and the
\* activation returns its error.
C9_CommandOrder ==
    \A f \in Frames :
        /\ f.log = Upto(Len(f.log))
        /\ f.pc = "running" => f.i = Len(f.log)
        /\ (f.pc = "cmds" /\ ~f.dry) => f.i = Len(f.log) + 1
        /\ (~cfg[f.task].ignore_failure /\ f.failed # {}) =>
              /\ f.failed = {Len(f.log)}
              /\ f.pc = "ret" /\ f.res \in CmdErrors

C9_Witness ==
    \E f \in Frames :
        /\ ~cfg[f.task].ignore_failure
        /\ Len(f.cmds) = 2 /\ f.failed = {1} /\ f.pc = "ret"

\* ------------------------------------------------------------ C10
\* C10: a sequential task starts its dependencies in declaration order, one
\* at a time, each only after all the earlier ones have returned Ok.
C10_SequentialDeps ==
    \A p \in FramePos :
        LET f == FrameAt(p)
            n == Len(f.started)
        IN ~cfg[f.task].parallel =>
            /\ f.started = Upto(n)
            /\ \A k \in 1..(n - 1) : k \in f.depok
            /\ f.depok \subseteq Range(f.started)
            /\ (n > 0 /\ n \notin f.depok) =>
                  \/ /\ ~IsTop(p)
                     /\ threads[p[1]].frames[p[2] + 1].via = "dep"
                     /\ threads[p[1]].frames[p[2] + 1].task = cfg[f.task].deps[n]
                  \/ f.pc = "ret" /\ f.res \notin {"ok", "none"}

C10_Witness ==
    \E f \in Frames :
        /\ ~cfg[f.task].parallel
        /\ f.started = <<1, 2>> /\ f.depok = {1}
        /\ f.pc = "ret" /\ f.res = "cmd"

\* ------------------------------------------------------------ C4
\* C4: the commands of a task with sources and outputs are skipped if and
\* only if both expansions are non-empty and the newest source is strictly
\* older than the oldest output, whatever the clock reads when the check
\* starts.
C4_SkipIffFresh ==
    c_out # "none" =>
        (c_out = "skip" <=>
            /\ c_in[1] # {} /\ c_in[2] # {}
            /\ Max(c_in[1]) < Min(c_in[2]))

\* ------------------------------------------------------------ C11
\* C11: while a task waits for its parallel batch every dependency of the
\* batch keeps its thread until it has returned, whatever its siblings
\* returned; the task leaves the wait only when every dependency has
\* returned, and it then fails with the batch error exactly when at least
\* one of them failed.
C11_ParallelCollects ==
    /\ [](\A T \in Live : Top(T).pc = "join" =>
             \A U \in Kids(T, Top(T)) :
                 /\ U \in DOMAIN threads
                 /\ U \in Live \/ threads[U].res # "none")
    /\ [][\A T \in Live :
            (Top(T).pc = "join" /\ Last(threads'[T].frames).pc # "join") =>
                /\ \A U \in Kids(T, Top(T)) : threads[U].res # "none"
                /\ Last(threads'[T].frames).res = "deps"
                     <=> \E U \in Kids(T, Top(T)) : threads[U].res # "ok"
                /\ Last(threads'[T].frames).res = "deps"
                     => Last(threads'[T].frames).pc = "ret"]_vars

C11_Witness ==
    \E T \in Live :
        /\ Top(T).pc = "join"
        /\ \E U, V \in Kids(T, Top(T)) :
              /\ threads[U].res \notin {"none", "ok"}
              /\ V \in Live /\ Top(V).pc = "running"

\* ------------------------------------------------------------ C12
\* C12: after a successful load every key of the final environment has a
\* non-empty provenance list whose last element carries the key's final
\* value.
C12_ProvenanceLast ==
    Loading("done") =>
        \A k \in DOMAIN ld.env :
            /\ k \in DOMAIN ld.prov
            /\ ld.prov[k] # <<>>
            /\ Last(ld.prov[k])[2] = ld.env[k]

C12_Witness ==
    /\ Loading("done")
    /\ \E k \in DOMAIN ld.env :
          /\ Len(ld.prov[k]) = 3
          /\ Last(ld.prov[k])[1] = <<"dynamic">>
          /\ ld.prov[k][2][1] = <<".env">>

\* ------------------------------------------------------------ C13
\* The layers of a directory in the order the specification gives: p.toml,
\* the overlays by ascending file name, the items of the .env variant.
OverlayOrder(dir) ==
    CHOOSE o \in Globbed(DOMAIN dir.exts) :
        \A i, j \in 1..Len(o) : i < j => LexLess(o[i], o[j])
DotItems(dir) ==
    IF EnvFilename(dir.penv) \in DOMAIN dir.dotenv
    THEN dir.dotenv[EnvFilename(dir.penv)] ELSE <<>>
StaticProv(dir, k) ==
    LET ovs == SelectSeq(OverlayOrder(dir), LAMBDA n : k \in DOMAIN dir.exts[n].env)
        its == SelectSeq(DotItems(dir), LAMBDA it : it[1] = k)
    IN (IF k \in DOMAIN dir.base.env
        THEN << <<<<"p.toml">>, dir.base.env[k]>> >> ELSE <<>>)
       \o [i \in 1..Len(ovs) |-> <<ovs[i], dir.exts[ovs[i]].env[k]>>]
       \o [i \in 1..Len(its) |-> <<EnvFilename(dir.penv), its[i][2]>>]
StaticKeys(dir) == {k \in Keys : StaticProv(dir, k) # <<>>}

\* C13: after a successful load the keys are those some layer defines; each
\* key's provenance lists its (source, value) pairs in the order p.toml,
\* overlays by ascending file name, .env variant, then "dynamic" if the value
\* was resolved; and the key's value is the one of the last of them.
C13_LayerOrder ==
    Loading("done") =>
        /\ DOMAIN ld.env = StaticKeys(ld.dir)
        /\ \A k \in DOMAIN ld.env :
              /\ \/ ld.prov[k] = StaticProv(ld.dir, k)
                 \/ ld.prov[k] = Append(StaticProv(ld.dir, k), <<<<"dynamic">>, ld.env[k]>>)
              /\ ld.env[k] = Last(ld.prov[k])[2]

C13_Witness ==
    /\ Loading("done")
    /\ "X" \in DOMAIN ld.env
    /\ ld.env["X"] = <<"c">>
    /\ \E n \in Names :
          ld.prov["X"] = << <<<<"p.toml">>, <<"a">>>>, <<n, <<"b">>>>, <<<<".env">>, <<"c">>>> >>

\* ------------------------------------------------------------ C14
\* C14: after a successful load, every key whose value was $(<cmd>) has as its
\* value the trimmed standard output of <cmd>, and the key's provenance ends
\* with ("dynamic", value).
C14_DynamicIsStdout ==
    Loading("done") =>
        \A k \in DOMAIN ld.snap :
            LET caps == DynCapture(ld.snap[k])
            IN (caps # None /\ Trim(Unwrap(caps)) # <<>>) =>
                  /\ ld.env[k] = Trim(Joined(Exec(Unwrap(caps), ld.snap).out))
                  /\ Last(ld.prov[k]) = <<<<"dynamic">>, ld.env[k]>>

\* ------------------------------------------------------------ C15
\* C15: two successful loads of the same directory give equal environments
\* and equal task maps.
C15_LoadsAgree ==
    (Loading("done") /\ ld.round = 2 /\ ld.first.pc = "done") =>
        /\ ld.env = ld.first.env
        /\ ld.runner = ld.first.runner

\* ------------------------------------------------------------ shell: claims
ShFrames == UNION {Range(sh.threads[t].stack) : t \in DOMAIN sh.threads}
RanRight(f) == f.st = "wait2" \/ f.r2.k # "none"

\* C16: in `a && b` the right side runs exactly when a's exit code is 0, in
\* `a || b` exactly when it is non-zero, and the node returns the exit code
\* of the last side that ran. (When a returns an error rather than an exit
\* code, b does not run and the error is the node's result.)
C16_AndOr ==
    \A f \in ShFrames : f.node.op \in {"and", "or"} =>
        /\ RanRight(f) =>
              /\ f.r1.k = "ok"
              /\ (f.node.op = "and") => f.r1.code = 0
              /\ (f.node.op = "or") => f.r1.code # 0
        /\ (f.st = "done" /\ f.r1.k = "ok") =>
              /\ RanRight(f) <=> (IF f.node.op = "and" THEN f.r1.code = 0 ELSE f.r1.code # 0)
              /\ f.res = IF RanRight(f) THEN f.r2 ELSE f.r1
        /\ (f.st = "done" /\ f.r1.k = "err") => (~RanRight(f) /\ f.res = f.r1)

C16_Witness ==
    /\ sh.pc = "run"
    /\ sh.line = And(Or(Sys, Sys), Sys)
    /\ \E f \in ShFrames :
          /\ f.node.op = "and" /\ f.st = "done"
          /\ f.r1 = Ok(0) /\ f.r2 = Ok(1) /\ f.res = Ok(1)
    /\ \E i \in 1..Len(sh.log) : i + 2 = Len(sh.log) /\ sh.log[i].res = Ok(1)

\* C17: a pipe that was set up returns the result of its right side whatever
\* the left side produced, and only after the left thread has finished.
C17_PipeResult ==
    \A f \in ShFrames : (f.node.op = "pipe" /\ f.st = "done" /\ f.kid # <<>>) =>
        /\ f.r2.k # "none"
        /\ f.res = f.r2
        /\ f.kid \in DOMAIN sh.threads
        /\ sh.threads[f.kid].fin

C17_Witness ==
    \E f \in ShFrames :
        /\ f.node = Pipe(Sys, Sys) /\ f.st = "done" /\ f.kid # <<>>
        /\ f.res = Ok(0)
        /\ sh.threads[f.kid].fin
        /\ sh.threads[f.kid].res = Err

\* C18: while a subshell runs and when it returns, the env and cwd of the
\* context it was entered from are what they were on entry, however deep
\* the subshells nest.
C18_SubshellIsolated ==
    \A f \in ShFrames : (f.node.op = "subshell" /\ f.st \in {"wait1", "done"}) =>
        /\ sh.ctxs[f.ctx].env = f.entered.env
        /\ sh.ctxs[f.ctx].cwd = f.entered.cwd

C18_Witness ==
    /\ \E f \in ShFrames :
          /\ f.node.op = "subshell" /\ f.st = "done" /\ f.ctx = 1 /\ f.res = Ok(0)
    /\ sh.ctxs[1].env["K"] = <<"o">> /\ sh.ctxs[1].cwd = <<"/">>
    /\ \E c, d \in 1..Len(sh.ctxs) :
          /\ sh.ctxs[c].env["K"] = <<"in">> /\ sh.ctxs[c].cwd = <<"/", "d">>
          /\ sh.ctxs[d].env["K"] = <<"deep">> /\ sh.ctxs[d].cwd = <<"/", "d", "d">>

\* C19: under `cmd > f 2>&1` the command's stdout and stderr are the one
\* writer of f; under `cmd 2> f` its stderr is f and its stdout is the one
\* it had.
MergedToFile ==
    <<parse_redirect_entry(None, ">", Word("f")),
      parse_redirect_entry(Some(2), ">&", Word("1"))>>
StderrToFile == <<parse_redirect_entry(Some(2), ">", Word("f"))>>
WhileLine ==
    Sequence(Assignment("K", Word("0")),
             While(Ne(Ref("K"), Word("2")),
                   IfThen(Ne(Ref("K"), Word("0")),
                          Assignment("K", Word("2")),
                          Some(Assignment("K", Word("1"))))))
WhileRuns ==
    << <<"0", "2">>, <<"0", "0">>, <<"1", "2">>, <<"1", "0">>, <<"2", "2">> >>
C20_ExpandedWhenRun ==
    /\ sh.line = Sequence(Assignment("K", Word("v")), SysK) =>
          \A i \in 1..Len(sh.log) : sh.log[i].args = << <<"sys">>, <<"v">> >>
    /\ sh.line = Sequence(Assignment("K", Word("v")),
                          parse_redirect(Sys, <<parse_redirect_entry(None, ">", Ref("K"))>>)) =>
          \A i \in 1..Len(sh.log) : sh.log[i].out = FileWriter(<<"v">>)
    /\ sh.line = WhileLine =>
          /\ Len(sh.log) <= Len(WhileRuns)
          /\ \A i \in 1..Len(sh.log) :
                sh.log[i].args = << <<"ne">>, <<WhileRuns[i][1]>>, <<WhileRuns[i][2]>> >>
          /\ sh.pc = "done" =>
                /\ Len(sh.log) = Len(WhileRuns)
                /\ sh.threads[ShMain].res = Ok(0)
                /\ sh.ctxs[1].env["K"] = <<"2">>

C20_Witness ==
    /\ sh.line = WhileLine
    /\ sh.pc = "done"
    /\ Len(sh.log) = 5
    /\ sh.log[3].args = << <<"ne">>, <<"1">>, <<"2">> >>
    /\ sh.log[3].env["K"] = <<"1">>

\* ------------------------------------------------------------ builtins: claims
\* The paths a call of rm, mkdir, cp or mv may change: all of them, for cp
\* the destination.
Mutated(args) ==
    LET paths == NotFlags(Tail(args))
    IN IF args[1] = <<"cp">> THEN {Last(paths)} ELSE Range(paths)
OutsideZone(arg) ==
    LET t == Target(fs.was, resolve_path(fs.ctx, arg))
    IN t # None /\ ~IsPrefix(Zone, Unwrap(t))

\* C21: with allow_paths = [P], a call of rm, mkdir, cp or mv with a target
\* whose canonical path is not under P returns a security error and leaves
\* the file system as it was.
C21_DeniedOutsideZone ==
    (/\ fs.pc = "done"
     /\ fs.args[1] \in {<<"rm">>, <<"mkdir">>, <<"cp">>, <<"mv">>}
     /\ fs.ctx.capabilities = Capabilities(None, Some(<<Zone>>))
     /\ \E arg \in Mutated(fs.args) : OutsideZone(arg))
    => (fs.res = FsErr("security") /\ fs.files = fs.was)

\* C22: with allow_exec set, a program that is neither listed nor a
\* registered command returns 126 and nothing is spawned; a listed program
\* is spawned.
C22_ExecAllowList ==
    (/\ fs.pc = "done"
     /\ fs.args[1] \notin {<<"rm">>, <<"mkdir">>, <<"cp">>, <<"mv">>}
     /\ fs.ctx.capabilities # None
     /\ Unwrap(fs.ctx.capabilities).allow_exec # None)
    => IF fs.args[1] \in Range(Unwrap(Unwrap(fs.ctx.capabilities).allow_exec))
       THEN fs.res # FsOk(126)
       ELSE fs.res = FsOk(126) /\ ~fs.spawned

\* ------------------------------------------------------------ logger: claims
\* The key a snapshot line starts with, and what it shows after " = ".
KeyOfLine(line) ==
    SubSeq(line, 1, (CHOOSE i \in 1..Len(line) : line[i] = " = ") - 1)
ShownInLine(line) ==
    SubSeq(line, (CHOOSE i \in 1..Len(line) : line[i] = " = ") + 1, Len(line) - 1)
\* A key the manifest or the default keywords declare secret; a pattern
\* matches a key it occurs in.
Secret(k) ==
    \/ \E w \in {<<"K", "E", "Y">>, <<"T", "O", "K", "E", "N">>, <<"P", "A", "S", "S">>,
                 <<"S", "E", "C", "R", "E", "T">>} : Contains(to_uppercase(k), w)
    \/ \E i \in 1..Len(lg.secret_patterns) : Contains(k, lg.secret_patterns[i])

\* C23: in a written log the snapshot has one line per key, in sorted order,
\* and the line of a secret key (default keyword or configured pattern)
\* shows [REDACTED]; the value of a secret key is nowhere in the snapshot.
C23_SnapshotRedacted ==
    (lg.pc = "done" /\ lg.written) =>
        /\ {KeyOfLine(lg.snapshot[i]) : i \in 1..Len(lg.snapshot)} = DOMAIN lg.env_vars
        /\ \A i, j \in 1..Len(lg.snapshot) :
              i < j => KeyLess(KeyOfLine(lg.snapshot[i]), KeyOfLine(lg.snapshot[j]))
        /\ \A i \in 1..Len(lg.snapshot) :
              Secret(KeyOfLine(lg.snapshot[i])) =>
                  ShownInLine(lg.snapshot[i]) = <<"[REDACTED]">>
        /\ \A k \in DOMAIN lg.env_vars : Secret(k) =>
              \A i \in 1..Len(lg.snapshot) : ~Contains(lg.snapshot[i], lg.env_vars[k])

\* ------------------------------------------------------------ expand_command: claims
\* The template names no argument: it has neither $@ nor $ before a digit.
NoPlaceholder(t) ==
    ~\E i \in 1..(Len(t) - 1) : t[i] = "$" /\ t[i + 1] \in {"@", "1", "2"}

\* C24 as stated: for a template without $@ and $N and any argument list,
\* the command before interpolation is template + " " + join(args, " ").
C24_AppendsAlways ==
    (xc.pc = "done" /\ NoPlaceholder(xc.cmd_template)) =>
        xc.positional = xc.cmd_template \o <<" ">> \o JoinArgs(xc.args)

\* C24, amended: that holds for every non-empty argument list; with no
\* arguments the command before interpolation is the template itself.
C24_AppendsArgs ==
    (xc.pc = "done" /\ NoPlaceholder(xc.cmd_template)) =>
        xc.positional = IF xc.args = <<>> THEN xc.cmd_template
                        ELSE xc.cmd_template \o <<" ">> \o JoinArgs(xc.args)

C24_Witness ==
    /\ xc.pc = "done"
    /\ xc.cmd_template = <<"e", " ", "$", "V">>
    /\ xc.args = <<<<"a">>, <<"$", "2">>>>
    /\ xc.positional = <<"e", " ", "$", "V", " ", "a", " ", "$", "2">>

\* C25: for a template with $@, the command before interpolation is the
\* template with every $@ replaced by the space-joined arguments (and $N
\* of the template by its argument), nothing added at the end.
C25_SplatOnce ==
    (xc.pc = "done" /\ Contains(xc.cmd_template, <<"$", "@">>)
       /\ ~\E i \in 1..(Len(xc.cmd_template) - 1) :
             xc.cmd_template[i] = "$" /\ xc.cmd_template[i + 1] \in {"1", "2"}) =>
        xc.positional = ReplaceAll(xc.cmd_template, <<"$", "@">>, JoinArgs(xc.args))

\* ------------------------------------------------------------ the call stack
\* The activations of recursive_runner that share thread T's CallStack: those
\* of T since the entry call or the last task adapter (a fresh CallStack),
\* and, for a parallel worker, those of the task that waits for it.
RECURSIVE ResolutionPath(_)
ResolutionPath(T) ==
    LET fr == threads[T].frames
        starts == {i \in 1..Len(fr) : fr[i].via \in {"entry", "adapter"}}
        from == IF starts = {} THEN 1 ELSE Max(starts)
        own == {fr[i].task : i \in from..Len(fr)}
    IN IF starts = {} /\ T # Main THEN own \cup ResolutionPath(Front(T)) ELSE own

\* The tasks reached from the tasks of S along at most n dependency edges.
RECURSIVE Reaches(_, _)
Reaches(S, n) ==
    IF n = 0 THEN S
    ELSE Reaches(S \cup UNION {Range(cfg[t].deps) : t \in S}, n - 1)
Acyclic ==
    \A t \in Tasks : t \notin Reaches(Range(cfg[t].deps), Cardinality(Tasks))

\* C26: the call stack a task sees between its push and its return is exactly
\* the set of names on its resolution path, in its own thread and in the
\* thread that waits for it, and a configuration whose dependency graph has
\* no cycle (a diamond included) never raises a cycle error.
C26_StackIsPath ==
    /\ \A T \in Live :
          Top(T).pc \notin {"enter", "ret"} => CallStackOf(T) = ResolutionPath(T)
    /\ Acyclic => "cycle" \notin raised

\* The second visit of a diamond: `a` depends on `b` then `c`, `b` on `c`, and
\* `c` is at its commands as the second dependency of `a`.
C26_Witness ==
    /\ cfg["a"].deps = <<"b", "c">> /\ cfg["b"].deps = <<"c">> /\ ~cfg["a"].parallel
    /\ Main \in Live /\ Len(threads[Main].frames) = 2
    /\ Top(Main).task = "c" /\ Top(Main).pc \in {"cmds", "running"}
    /\ Caller(Main).depok = {1}
    /\ CallStackOf(Main) = {"a", "c"}

\* ------------------------------------------------------------ the capture mode
\* The activations running a command line, with the thread they run in.
Executing ==
    {<<T, i>> \in UNION {{T} \X (1..Len(threads[T].frames)) : T \in DOMAIN threads} :
        threads[T].frames[i].pc = "running"}

\* C27: every command line run in the thread of a parallel dependency runs
\* with capture mode Buffer, and every command line run outside parallel
\* batches runs with Tee when logging is enabled and with Inherit otherwise.
C27_ParallelBuffered ==
    \A e \in Executing :
        capture_mode(threads[e[1]].frames[e[2]].capture) =
            IF e[1] # Main THEN "Buffer"
            ELSE IF log_enabled THEN "Tee" ELSE "Inherit"

\* ------------------------------------------------------------ thread scopes
ShThreads == IF sh.pc = "off" THEN {} ELSE DOMAIN sh.threads
\* The contexts the calls in progress on thread t were given.
ShContextsOf(t) ==
    {sh.threads[t].stack[i].ctx : i \in 1..Len(sh.threads[t].stack)}
\* The activations on thread t, lowest first, each with its position.
ShCalls == UNION {{t} \X (1..Len(sh.threads[t].stack)) : t \in ShThreads}

\* C28: no context is used by two threads; while a task waits for its batch
\* of parallel dependencies its context is what it was when the batch began,
\* a dependency of the batch that has not begun has that same context whatever
\* its siblings have done, and the context a pipeline runs in is what it was
\* on entry until the right side begins, whatever the left side has done.
C28_NoWriteBack ==
    /\ \A t \in ShThreads : \A u \in ShThreads \ {t} :
          ShContextsOf(t) \cap ShContextsOf(u) = {}
    /\ \A c \in ShCalls :
          LET t == c[1]
              stack == sh.threads[t].stack
              p == stack[c[2]]
          IN /\ (p.node.op = "task" /\ p.st = "batch") =>
                  /\ sh.ctxs[p.ctx] = p.entered
                  /\ \A k \in 1..Len(p.node.deps) :
                        LET worker == sh.threads[DepThread(t, k)].stack
                        IN (Len(worker) = 1 /\ worker[1].st = "new") =>
                              sh.ctxs[worker[1].ctx] = p.entered
             /\ (/\ p.node.op = "pipe" /\ p.st = "wait1"
                 /\ c[2] + 1 = Len(stack) /\ stack[c[2] + 1].st = "new") =>
                  sh.ctxs[p.ctx] = p.entered

\* The batch of `left` and `one` is through and the task's own pipeline has
\* run: the left side of a pipeline assigned l, its right side r, `one`
\* assigned one and changed directory, and the task's context has the
\* variable and the directory it started with.
C28_Witness ==
    /\ sh.pc = "done"
    /\ sh.line = Task(<<DepLeft, DepOne>>, TRUE, <<Pipe(Cd(Word("d")), SysK)>>)
    /\ sh.threads[ShMain].res = Ok(0)
    /\ {<<"l">>, <<"r">>, <<"one">>} \subseteq
          {sh.ctxs[c].env["K"] : c \in DOMAIN sh.ctxs}
    /\ \E c \in DOMAIN sh.ctxs : sh.ctxs[c].cwd # StartContext.cwd
    /\ sh.ctxs[1].env = StartContext.env
    /\ sh.ctxs[1].cwd = StartContext.cwd

\* ------------------------------------------------------------ the readers
\* C29: when run_shell_command has returned, with a result or with an error,
\* none of its reader threads is running, and the log of a result in Buffer
\* or Tee mode holds every line the child wrote.
C29_ReadersJoined ==
    rs.pc = "returned" =>
        /\ \A x \in Streams : rs.readers[x] # "running"
        /\ (rs.res.k = "ok" /\ rs.mode # "Inherit") => Range(rs.res.log) = rs.wrote

\* ------------------------------------------------------------ the bridge
\* C30: with an outer stdout, the right side of a sequence writes only after
\* the left side has returned, the sink holds no byte of the left side after
\* a byte of the right side, and once the node has returned, with an exit
\* code or with an error, the sink holds every byte either side wrote.
C30_SinkComplete ==
    (sq.pc # "off" /\ sq.stdout) =>
        /\ (\E i \in 1..Len(sq.wrote) : sq.wrote[i][1] = "right") =>
              sq.left_res.k = "ok"
        /\ \A i \in 1..Len(sq.sink) : \A j \in i..Len(sq.sink) :
              ~(sq.sink[i][1] = "right" /\ sq.sink[j][1] = "left")
        /\ sq.pc = "returned" => sq.sink = sq.wrote

\* ------------------------------------------------------------ the condition of an if
\* The commands entered while the condition of an `if` runs on thread t:
\* the simple commands above an If frame that waits for its condition.
InCondition ==
    {c \in ShCalls :
        /\ sh.threads[c[1]].stack[c[2]].node.op = "simple"
        /\ \E i \in 1..(c[2] - 1) :
              /\ sh.threads[c[1]].stack[i].node.op = "if"
              /\ sh.threads[c[1]].stack[i].st = "wait1"}

\* C31: a command of the condition of an `if` has a stdout that is neither
\* the process's own (an absent handle) nor the handle the If node was
\* given, and has the stderr the If node was given.
C31_ConditionSilent ==
    \A c \in InCondition :
        LET stack == sh.threads[c[1]].stack
            cmd == stack[c[2]]
            node == stack[CHOOSE i \in 1..(c[2] - 1) :
                              stack[i].node.op = "if" /\ stack[i].st = "wait1"]
        IN /\ cmd.out # None
           /\ cmd.out # node.out
           /\ cmd.err = node.err

\* ------------------------------------------------------------ identity settings
\* The overlays that define setting k in their identity section.
Defining(k) ==
    {i \in 1..Len(ld.overlays) :
        \/ IsSome(ld.overlays[i].project) /\ IsSome(Unwrap(ld.overlays[i].project)[k])
        \/ IsSome(ld.overlays[i].module) /\ IsSome(Unwrap(ld.overlays[i].module)[k])}

\* C32: in the assembled configuration every setting that some overlay
\* defines has the value of the last overlay that defines it, whatever
\* sections the base manifest has.
C32_OverlayWins ==
    ld.pc = "assembled" =>
        \A k \in SettingKeys :
            Defining(k) # {} =>
                Setting(ld.config, k) = Some(OverlayName(Max(Defining(k))))

\* ------------------------------------------------------------ precedence
\* What the grammar of the shell says a line of commands is: it splits at its
\* last `;`, else at its last `&&` or `||`, else at its last `|`, the left
\* part being split again the same way; a redirection belongs to the one
\* command written before it.
Loosest(shape, lo, hi, ops) ==
    LET at == {k \in lo..(hi - 1) : shape.ops[k] \in ops}
    IN IF at = {} THEN 0 ELSE Max(at)
Atom(shape, i) ==
    LET cmd == Simple(Word(CommandWords[i]), <<>>)
    IN IF i \in shape.redirected THEN Redirect(cmd, Word("f"), "overwrite", 1) ELSE cmd
RECURSIVE Grammar(_, _, _, _)
Grammar(shape, lo, hi, level) ==
    LET ops == IF level = 1 THEN {<<";">>}
               ELSE IF level = 2 THEN {<<"&", "&">>, <<"|", "|">>}
               ELSE {<<"|">>}
        k == Loosest(shape, lo, hi, ops)
        left == Grammar(shape, lo, k, level)
        right == Grammar(shape, k + 1, hi, level + 1)
    IN IF level = 4 THEN Atom(shape, lo)
       ELSE IF k = 0 THEN Grammar(shape, lo, hi, level + 1)
       ELSE IF shape.ops[k] = <<";">> THEN Sequence(left, right)
       ELSE IF shape.ops[k] = <<"&", "&">> THEN And(left, right)
       ELSE IF shape.ops[k] = <<"|", "|">> THEN Or(left, right)
       ELSE Pipe(left, right)

\* C33: parse_command_line reads `;` as the loosest operator, then `&&` and
\* `||` with equal precedence and to the left, then `|` to the left, and a
\* redirection binds to the single command before it: the tree it builds for
\* a line is the tree of the grammar, the rest of the input being empty.
C33_Precedence ==
    sh.pc = "parsed" =>
        /\ sh.tree.k = "ok"
        /\ sh.tree.rem = <<>>
        /\ sh.tree.expr = Grammar(sh.shape, 1, Len(sh.shape.ops) + 1, 1)

\* `a && b | c > f` is parsed to And(a, Pipe(b, Redirect(c, f))).
C33_Witness ==
    /\ sh.pc = "parsed"
    /\ sh.input = <<"a", " ", "&", "&", " ", "b", " ", "|", " ", "c", " ", ">", " ", "f">>
    /\ sh.tree.expr = And(Simple(Word("a"), <<>>),
                          Pipe(Simple(Word("b"), <<>>),
                               Redirect(Simple(Word("c"), <<>>), Word("f"),
                                        "overwrite", 1)))

\* ------------------------------------------------------------ dry run
\* The run was started with --dry-run.
DryRun == \E f \in Frames : f.via = "entry" /\ f.dry

\* C34: in a dry run, for the entry task and all its dependencies, no command
\* is executed, no command is started (so no log file is written for it), and
\* the freshness cache of no task is saved.
C34_DryRunInert ==
    DryRun =>
        /\ executed = {}
        /\ \A f \in Frames : f.log = <<>>
        /\ saved = {}

\* ------------------------------------------------------------ the handle
\* C35: when an expression is executed with a stdout handle, every command
\* inside it is executed with a stdout handle too, the body of a `while` and
\* the branches of an `if` included: none of them is given None, which is the
\* process's own stdout.
C35_HandleKept ==
    sh.pc # "off" =>
        \A t \in DOMAIN sh.threads :
            LET stack == sh.threads[t].stack
            IN \A i \in 2..Len(stack) :
                  stack[i - 1].out # None => stack[i].out # None

\* ------------------------------------------------------------ the environment
\* C36: every process spawned for a command of a task has every variable of
\* the assembled configuration environment in its environment, with the
\* configuration's value, through the system command of the embedded shell
\* and through the system-shell runner alike.
C36_ConfigEnvPassed ==
    sh.pc = "cmds" =>
        \A i \in 1..Len(sh.spawned) : \A k \in DOMAIN sh.config_env :
            /\ k \in DOMAIN sh.spawned[i].env
            /\ sh.spawned[i].env[k] = sh.config_env[k]

RECURSIVE Resolved(_, _)
Resolved(at, rest) ==
    IF rest = <<>> THEN at
    ELSE IF Head(rest) = ".." THEN Resolved(Parent(at), Tail(rest))
    ELSE IF Head(rest) = "." THEN Resolved(at, Tail(rest))
    ELSE Resolved(Append(at, Head(rest)), Tail(rest))
Location(target, cwd) ==
    IF target # <<>> /\ Head(target) = "/" THEN Resolved(Root, Tail(target))
    ELSE Resolved(Root, Tail(cwd) \o target)

\* C38: check_path_access admits no target whose location, `..` resolved, is
\* outside every entry of allow_paths, also when neither the target nor its
\* parent exists.
C38_NoEscape ==
    (fs.pc = "checked" /\ fs.admitted) =>
        \E i \in 1..Len(Unwrap(Unwrap(fs.ctx.capabilities).allow_paths)) :
            IsPrefix(Unwrap(Unwrap(fs.ctx.capabilities).allow_paths)[i],
                     Location(fs.target, fs.ctx.cwd))

\* C39: with allow_paths set, an output redirection (`>`, `>>`, `2>`) creates,
\* truncates or appends to no file outside every entry of allow_paths.
C39_RedirectInZone ==
    fs.pc \in {"opened", "returned"} =>
        \A x \in fs.touched :
            \E i \in 1..Len(Unwrap(Unwrap(fs.ctx.capabilities).allow_paths)) :
                IsPrefix(Unwrap(Unwrap(fs.ctx.capabilities).allow_paths)[i], x)

====
